---- MODULE Spec2Model ----
(***************************************************************************)
(* A model of the brake-requirements converters:                           *)
(*   "headings"    src/convert_brake_to_polarion_headings.py               *)
(*   "synthetic"   src/archive_scripts/convert_brake_requirements_to_polarion.py *)
(*   "no_headings" src/archive_scripts/convert_brake_requirements_to_polarion_no_headings.py *)
(*   "exact"       src/archive_scripts/convert_brake_to_polarion_exact.py  *)
(* Each script is a sequential program: the state is the converter         *)
(* object's fields, the locals of the running method, the parsed input     *)
(* and the output file.  Operators prefixed HD_, NH_ and EX_ model the     *)
(* functions of the headings, no-headings and bundle scripts whose names   *)
(* collide with those of the synthetic-headings script.                    *)
(***************************************************************************)
EXTENDS Integers, Sequences, FiniteSets, TLC

(* ---------------------------------------------------------------- bounds *)
MaxChapters == 2      \* chapters per document
MaxSubs == 2          \* subchapters per chapter
MaxItems == 2         \* work items per chapter / subchapter

(* ------------------------------------------------------------ JSON values *)
\* A key that is absent from a JSON object (dict.get's default applies).
Missing == "<missing>"

\* A "workitems" value: the key is absent, is JSON null, or is a list.
WMissing == [kind |-> "missing", items |-> <<>>]
WNull == [kind |-> "null", items |-> <<>>]
WList(s) == [kind |-> "list", items |-> s]

\* Python truthiness of a present "workitems" value: None and [] are falsy.
Truthy(w) == w.kind = "list" /\ Len(w.items) > 0

\* A "subchapters" value: the key is absent or is a list.
SubsMissing == [kind |-> "missing", subs |-> <<>>]
SubsList(s) == [kind |-> "list", subs |-> s]

(* --------------------------------------------------------------- strings *)
\* Python: k in s (substring test).
Contains(s, k) ==
    \E i \in 1..(Len(s) - Len(k) + 1) : SubSeq(s, i, i + Len(k) - 1) = k

CharAt(s, i) == SubSeq(s, i, i)

Digits == {"0", "1", "2", "3", "4", "5", "6", "7", "8", "9"}

\* Number of leading characters of s, from position i on, that lie in cs.
RECURSIVE Run(_, _, _)
Run(s, i, cs) ==
    IF i <= Len(s) /\ CharAt(s, i) \in cs THEN 1 + Run(s, i + 1, cs) ELSE 0

\* Python: re.sub(r'^\d+\.?\d*\s+', '', s).  The match is one or more digits,
\* an optional dot, any digits, and at least one white-space character; a
\* string with no such prefix is returned unchanged.
StripNumbering(s) ==
    LET a == Run(s, 1, Digits)
        dot == IF CharAt(s, a + 1) = "." THEN 1 ELSE 0
        b == Run(s, a + dot + 1, Digits)
        c == Run(s, a + dot + b + 1, {" "})
        c0 == Run(s, a + 1, {" "})
    IN  IF a = 0 THEN s
        ELSE IF dot = 1 /\ c > 0 THEN SubSeq(s, a + dot + b + c + 1, Len(s))
        ELSE IF dot = 0 /\ c0 > 0 THEN SubSeq(s, a + c0 + 1, Len(s))
        ELSE s

UpperCase == "ABCDEFGHIJKLMNOPQRSTUVWXYZ"
LowerCase == "abcdefghijklmnopqrstuvwxyz"

LowerChar(c) ==
    IF \E i \in 1..26 : CharAt(UpperCase, i) = c
    THEN CharAt(LowerCase, CHOOSE i \in 1..26 : CharAt(UpperCase, i) = c)
    ELSE c

\* Python: s.lower()
RECURSIVE Lower(_)
Lower(s) == IF Len(s) = 0 THEN "" ELSE LowerChar(CharAt(s, 1)) \o Lower(Tail(s))

(* ---------------------------------------------------------------- inputs *)
\* The work items ("requirements") the input documents are built from.
ReqPool ==
    << [id |-> "BR-001", title |-> "Service brake safety goal",
        description |-> "Shall stop the vehicle", category |-> "Safety",
        priority |-> "Critical"],
       [id |-> "BR-002", title |-> "ABS server integration",
        description |-> "Shall prevent wheel lock", category |-> "Functional",
        priority |-> "High"],
       [id |-> "BR-003", title |-> "Brake fade test",
        description |-> "Shall be tested for fade", category |-> "Testing",
        priority |-> "Low"],
       [id |-> "BR-004", title |-> "Pad wear indication",
        description |-> "Shall indicate pad wear", category |-> "Maintenance",
        priority |-> "Medium"],
       [id |-> "BR-005", title |-> "Brake response time",
        description |-> "Shall respond quickly", category |-> "Performance",
        priority |-> "Urgent"] >>

Req(i) == ReqPool[((i - 1) % Len(ReqPool)) + 1]

\* n consecutive requirements of the pool, from the start-th on.
Items(start, n) == [i \in 1..n |-> Req(start + i - 1)]

ChapterHeadings ==
    << "3. Functional Requirements", "5. Safety Requirements",
       "Performance Requirements", "11. Appendix" >>

SubHeadings ==
    << "3.1 Primary Brake Functions", "5.2 Monitoring and Warnings",
       "Stopping Performance", "Glossary" >>

NDirect == Len(ChapterHeadings)
NSubOpts == Len(SubHeadings)

\* The direct "workitems" of a chapter: absent, null, empty, or MaxItems items.
DirectOpt(d) ==
    CASE d = 1 -> WMissing
      [] d = 2 -> WNull
      [] d = 3 -> WList(<<>>)
      [] OTHER -> WList(Items(1, MaxItems))

\* The "workitems" of the j-th subchapter of a chapter of shape s:
\*   s = 2: every subchapter holds MaxItems items;
\*   s = 3: absent, one item, empty, in turn;
\*   s = 4: one item each, and null in the last subchapter.
SubWork(s, j) ==
    CASE s = 2 -> WList(Items(j + 1, MaxItems))
      [] s = 3 -> (CASE j % 3 = 1 -> WMissing
                     [] j % 3 = 2 -> WList(Items(j, 1))
                     [] OTHER -> WList(<<>>))
      [] OTHER -> IF j = MaxSubs THEN WNull ELSE WList(Items(j, 1))

HeadingIdOf(k, j) ==
    IF j = 0 THEN "Python/FCTS-" \o ToString(9100 + k)
    ELSE "Python/FCTS-" \o ToString(9100 + k) \o "-" \o ToString(j)

SubOpt(k, s) ==
    IF s = 1 THEN SubsMissing
    ELSE SubsList([j \in 1..MaxSubs |->
            [heading |-> SubHeadings[((j + s) % NSubOpts) + 1],
             heading_id |-> HeadingIdOf(k, j),
             workitems |-> SubWork(s, j)]])

Chapter(d, s) ==
    LET k == (d - 1) * NSubOpts + s
    IN  [heading |-> ChapterHeadings[d],
         heading_id |-> HeadingIdOf(k, 0),
         workitems |-> DirectOpt(d),
         subchapters |-> SubOpt(k, s)]

\* A chapter without "heading_id", whose first subchapter has none either.
IdlessChapter ==
    LET c == Chapter(NDirect, 2)
    IN  [c EXCEPT !.heading_id = Missing,
                  !.subchapters.subs[1].heading_id = Missing]

ChapterPool ==
    {Chapter(d, s) : d \in 1..NDirect, s \in 1..NSubOpts} \cup {IdlessChapter}

ChapterLists == UNION {[1..n -> ChapterPool] : n \in 0..MaxChapters}

\* The keys of the "document" object that the scripts read.
RequiredKeys == <<"id", "title", "project", "space", "chapters">>
DocKeys == {"id", "title", "project", "space", "chapters", "version", "created"}

\* The parsed input: whether "document" is present, which keys the document
\* holds, and its "chapters" value (a list, or JSON null for "not a list").
WellFormedData ==
    [has_document : {TRUE},
     keys : {DocKeys},
     chapters_kind : {"list"},
     chapters : ChapterLists]

\* An input object without "document" (also stands for a file never parsed).
NoData == [has_document |-> FALSE, keys |-> {}, chapters_kind |-> "list",
           chapters |-> <<>>]

\* Inputs with any subset of the document's keys, "chapters" a list or not.
MalformedData ==
    [has_document : {TRUE},
     keys : SUBSET DocKeys,
     chapters_kind : {"list", "null"},
     chapters : {<<>>}] \cup {NoData}

\* The heading titles read from the discovered-documents file (heading script).
HeadingMaps ==
    { <<>>, << [id |-> HeadingIdOf(NSubOpts * NDirect, 0),
               title |-> "11 Appendix (discovered)"] >> }

\* The work items of the project analysis (bundle script), in file order.
Analyses ==
    { [found |-> FALSE, items |-> <<>>],
      [found |-> TRUE, items |-> <<>>],
      [found |-> TRUE, items |->
          << [id |-> "Python/FCTS-9154", type |-> "heading", title |-> "Goals"],
             [id |-> "Python/FCTS-9155", type |-> "requirement", title |-> "MCP Safety Goal"],
             [id |-> "Python/FCTS-9160", type |-> "testcase", title |-> "MCP Test Case"] >>],
      [found |-> TRUE, items |->
          << [id |-> "Python/FCTS-9157", type |-> "requirement", title |-> "Proto-Server"],
             [id |-> "Python/FCTS-9156", type |-> "requirement", title |-> "MCP Framework"],
             [id |-> "Python/FCTS-9157", type |-> "requirement", title |-> "Proto-Server v2"] >>] }

(* ----------------------------------------------------------------- state *)
VARIABLES
    variant,            \* which script runs
    input_file,         \* "missing", "invalid" (not JSON) or "valid"
    data,               \* the parsed requirements file
    heading_map,        \* heading script: titles from the discovered documents
    analysis,           \* bundle script: the project analysis file
    pc,                 \* position in the running script
    reported,           \* the last error message printed
    exit_status,        \* -1 while running, then the process's exit status
    work_items,         \* self.work_items / output_items
    heading_counter,    \* self.heading_counter
    heading_ids,        \* self.heading_ids (no-headings script)
    existing_workitems, \* self.existing_workitems (bundle script)
    items,              \* process_chapter's local list
    chapter_idx,        \* index of the chapter being processed
    sub_idx,            \* index of the subchapter being processed
    root_heading_id,    \* convert's local
    chapter_heading_id, \* process_chapter's local
    output,             \* the output file
    m_arg, m_fn, m_ret  \* a single call of a mapping function

inputs == <<variant, input_file, data, heading_map, analysis>>
fields == <<work_items, heading_counter, heading_ids, existing_workitems>>
locals == <<items, chapter_idx, sub_idx, root_heading_id, chapter_heading_id>>
mapvars == <<m_arg, m_fn, m_ret>>
vars == <<inputs, pc, reported, exit_status, fields, locals, output, mapvars>>

NoOutput == [written |-> FALSE]

\* sys.exit(1), directly or from one of convert's except clauses.
Exit1(msg) ==
    /\ pc' = "exit"
    /\ exit_status' = 1
    /\ reported' = msg

(* ------------------------------------- synthetic-headings script: functions *)
InitialHeadingCounter == 1000

\* Mutant of generate_heading_id: the id is formatted before the increment.
generate_heading_id_Stale(counter) ==
    [counter |-> counter + 1,
     id |-> "Python/BR-HEAD-" \o ToString(counter)]

\* generate_heading_id: the counter after the call and the id returned.
generate_heading_id(counter) ==
    [counter |-> counter + 1,
     id |-> "Python/BR-HEAD-" \o ToString(counter + 1)]

\* dict.get(key, default) on a table given as a sequence of <<key, value>>.
DictGet(table, key, default) ==
    IF \E i \in 1..Len(table) : table[i][1] = key
    THEN table[CHOOSE i \in 1..Len(table) : table[i][1] = key][2]
    ELSE default

priority_map ==
    << <<"Critical", "100.0">>, <<"High", "90.0">>,
       <<"Medium", "50.0">>, <<"Low", "30.0">> >>

\* Mutant of map_priority: an unknown priority falls back to the lowest value.
map_priority_LowDefault(priority) == DictGet(priority_map, priority, "30.0")

map_priority(priority) == DictGet(priority_map, priority, "50.0")

\* Mutant of map_severity: the test for Safety comes after the one for Critical.
map_severity_CriticalFirst(category, priority) ==
    IF priority = "Critical" THEN "must_have"
    ELSE IF category = "Safety" /\ priority = "Critical" THEN "safety_critical"
    ELSE IF priority = "High" THEN "should_have"
    ELSE IF priority = "Medium" THEN "could_have"
    ELSE "nice_to_have"

map_severity(category, priority) ==
    IF category = "Safety" /\ priority = "Critical" THEN "safety_critical"
    ELSE IF priority = "Critical" THEN "must_have"
    ELSE IF priority = "High" THEN "should_have"
    ELSE IF priority = "Medium" THEN "could_have"
    ELSE "nice_to_have"

status_map ==
    << <<"Regulatory", "approved">>, <<"Safety", "in_review">>,
       <<"Functional", "draft">>, <<"Performance", "draft">>,
       <<"Interface", "draft">>, <<"Environmental", "draft">>,
       <<"Maintenance", "draft">>, <<"Testing", "draft">> >>

\* Mutant of map_status: a category outside the table is approved.
map_status_Approved(category) == DictGet(status_map, category, "approved")

map_status(category) == DictGet(status_map, category, "draft")

ParentLink(target, description) ==
    [target_id |-> target, role |-> "has_parent", description |-> description]

\* A heading work item as convert, process_chapter and process_subchapter
\* build it; links is empty when the item has no "links" key.
HeadingItem(id, title, html, priority, outline, links) ==
    [id |-> id, type |-> "heading", title |-> title, description |-> html,
     status |-> "approved", severity |-> Missing, priority |-> priority,
     outlineNumber |-> outline, links |-> links]

create_requirement_workitem(req, parent_heading_id, outline_number) ==
    [id |-> "Python/" \o req.id,
     type |-> "requirement",
     title |-> req.title,
     description |-> "<p>" \o req.description \o "</p>",
     status |-> map_status(req.category),
     severity |-> map_severity(req.category, req.priority),
     priority |-> map_priority(req.priority),
     outlineNumber |-> outline_number,
     links |-> <<ParentLink(parent_heading_id, "Links to chapter heading")>>]

\* Mutant of validate_input: the isinstance check of "chapters" is left out.
validate_input_NoListCheck(d) ==
    IF ~d.has_document
    THEN [result |-> FALSE, message |-> "Missing 'document' key in input JSON"]
    ELSE IF \E i \in 1..Len(RequiredKeys) : RequiredKeys[i] \notin d.keys
    THEN LET i == CHOOSE i \in 1..Len(RequiredKeys) :
                    /\ RequiredKeys[i] \notin d.keys
                    /\ \A j \in 1..(i - 1) : RequiredKeys[j] \in d.keys
         IN  [result |-> FALSE,
              message |-> "Missing required key '" \o RequiredKeys[i] \o "' in document"]
    ELSE [result |-> TRUE, message |-> ""]

\* validate_input: the value returned and the message printed.
validate_input(d) ==
    IF ~d.has_document
    THEN [result |-> FALSE, message |-> "Missing 'document' key in input JSON"]
    ELSE IF \E i \in 1..Len(RequiredKeys) : RequiredKeys[i] \notin d.keys
    THEN LET i == CHOOSE i \in 1..Len(RequiredKeys) :
                    /\ RequiredKeys[i] \notin d.keys
                    /\ \A j \in 1..(i - 1) : RequiredKeys[j] \in d.keys
         IN  [result |-> FALSE,
              message |-> "Missing required key '" \o RequiredKeys[i] \o "' in document"]
    ELSE IF d.chapters_kind # "list"
    THEN [result |-> FALSE, message |-> "'chapters' must be a list"]
    ELSE [result |-> TRUE, message |-> ""]

\* The items process_chapter appends for the chapter's direct work items.
DirectItems(chapter, chapter_num, parent_id) ==
    IF chapter.workitems.kind # "missing" /\ Truthy(chapter.workitems)
    THEN [idx \in 1..Len(chapter.workitems.items) |->
            create_requirement_workitem(chapter.workitems.items[idx], parent_id,
                ToString(chapter_num) \o "." \o ToString(idx))]
    ELSE <<>>

\* Mutant of process_subchapter: the work items are linked to the chapter's
\* heading (parent_heading_id) instead of the subchapter's.
process_subchapter_LinkChapter(subchapter, chapter_num, sub_num, parent_heading_id, counter) ==
    LET g == generate_heading_id(counter)
        outline == ToString(chapter_num) \o "." \o ToString(sub_num)
        heading == HeadingItem(g.id, subchapter.heading,
                       "<h3>" \o subchapter.heading \o "</h3>", "95.0", outline,
                       <<ParentLink(parent_heading_id, "Links to parent chapter")>>)
        w == subchapter.workitems
    IN  IF w.kind = "null"
        THEN [raised |-> TRUE, counter |-> g.counter, items |-> <<>>]
        ELSE [raised |-> FALSE, counter |-> g.counter,
              items |-> <<heading>> \o
                  [idx \in 1..Len(w.items) |->
                      create_requirement_workitem(w.items[idx], parent_heading_id,
                          outline \o "." \o ToString(idx))]]

\* process_subchapter: whether it raises, the counter afterwards, the items.
process_subchapter(subchapter, chapter_num, sub_num, parent_heading_id, counter) ==
    LET g == generate_heading_id(counter)
        outline == ToString(chapter_num) \o "." \o ToString(sub_num)
        heading == HeadingItem(g.id, subchapter.heading,
                       "<h3>" \o subchapter.heading \o "</h3>", "95.0", outline,
                       <<ParentLink(parent_heading_id, "Links to parent chapter")>>)
        w == subchapter.workitems
    IN  IF w.kind = "null"
        THEN [raised |-> TRUE, counter |-> g.counter, items |-> <<>>]
        ELSE [raised |-> FALSE, counter |-> g.counter,
              items |-> <<heading>> \o
                  [idx \in 1..Len(w.items) |->
                      create_requirement_workitem(w.items[idx], g.id,
                          outline \o "." \o ToString(idx))]]

(* --------------------------------------- synthetic-headings script: convert *)
Chapters == data.chapters
CurChapter == Chapters[chapter_idx]
CurSubs == CurChapter.subchapters.subs

\* convert: if not self.input_file.exists(): sys.exit(1)
SY_CheckInput ==
    /\ variant = "synthetic" /\ pc = "start"
    /\ IF input_file = "missing"
       THEN Exit1("Input file not found")
       ELSE pc' = "load" /\ UNCHANGED <<reported, exit_status>>
    /\ UNCHANGED <<inputs, fields, locals, output, mapvars>>

\* convert: data = self.load_structured_requirements()
SY_Load ==
    /\ variant = "synthetic" /\ pc = "load"
    /\ IF input_file = "invalid"
       THEN Exit1("Invalid JSON in input file")
       ELSE pc' = "validate" /\ UNCHANGED <<reported, exit_status>>
    /\ UNCHANGED <<inputs, fields, locals, output, mapvars>>

\* Mutant of SY_Validate: the failure is reported but convert goes on.
SY_Validate_NoExit ==
    /\ variant = "synthetic" /\ pc = "validate"
    /\ pc' = "root"
    /\ reported' = validate_input(data).message
    /\ UNCHANGED <<inputs, exit_status, fields, locals, output, mapvars>>

\* convert: if not self.validate_input(data): sys.exit(1)
SY_Validate ==
    /\ variant = "synthetic" /\ pc = "validate"
    /\ LET v == validate_input(data)
       IN  IF v.result
           THEN pc' = "root" /\ UNCHANGED <<reported, exit_status>>
           ELSE Exit1(v.message)
    /\ UNCHANGED <<inputs, fields, locals, output, mapvars>>

\* convert: the root heading.  The id is generated before the heading's
\* description reads document['version'] and document['created'].
SY_Root ==
    /\ variant = "synthetic" /\ pc = "root"
    /\ LET g == generate_heading_id(heading_counter)
       IN  /\ heading_counter' = g.counter
           /\ IF {"title", "version", "created"} \subseteq data.keys
              THEN /\ root_heading_id' = g.id
                   /\ work_items' = Append(work_items,
                          HeadingItem(g.id, "Brake System", "<h1>Brake System</h1>",
                                      "100.0", "1", <<>>))
                   /\ chapter_idx' = 1
                   /\ pc' = "chapter"
                   /\ UNCHANGED <<reported, exit_status>>
              ELSE /\ Exit1("Unexpected error: KeyError")
                   /\ UNCHANGED <<root_heading_id, work_items, chapter_idx>>
    /\ UNCHANGED <<inputs, heading_ids, existing_workitems, items, sub_idx,
                   chapter_heading_id, output, mapvars>>

\* process_chapter up to its loop over the subchapters: the chapter heading,
\* linked to parent_id when that is truthy, and the direct work items.
SY_ChapterBegin ==
    /\ variant = "synthetic" /\ pc = "chapter"
    /\ chapter_idx <= Len(Chapters)
    /\ LET g == generate_heading_id(heading_counter)
           chapter_num == chapter_idx + 1
           heading == HeadingItem(g.id, CurChapter.heading,
                          "<h2>" \o CurChapter.heading \o "</h2><p></p>", "100.0",
                          ToString(chapter_num),
                          IF root_heading_id # ""
                          THEN <<ParentLink(root_heading_id, "Links to document root")>>
                          ELSE <<>>)
       IN  /\ heading_counter' = g.counter
           /\ chapter_heading_id' = g.id
           /\ items' = <<heading>> \o DirectItems(CurChapter, chapter_num, g.id)
    /\ sub_idx' = 1
    /\ pc' = "subchapter"
    /\ UNCHANGED <<inputs, reported, exit_status, work_items, heading_ids,
                   existing_workitems, chapter_idx, root_heading_id, output, mapvars>>

\* process_chapter: items.extend(self.process_subchapter(...)) for one
\* subchapter; a TypeError (workitems is null) ends convert with exit 1.
SY_Subchapter ==
    /\ variant = "synthetic" /\ pc = "subchapter"
    /\ CurChapter.subchapters.kind = "list"
    /\ sub_idx <= Len(CurSubs)
    /\ LET r == process_subchapter(CurSubs[sub_idx], chapter_idx + 1, sub_idx,
                                   chapter_heading_id, heading_counter)
       IN  /\ heading_counter' = r.counter
           /\ IF r.raised
              THEN /\ Exit1("Unexpected error: TypeError")
                   /\ UNCHANGED <<items, sub_idx>>
              ELSE /\ items' = items \o r.items
                   /\ sub_idx' = sub_idx + 1
                   /\ UNCHANGED <<pc, reported, exit_status>>
    /\ UNCHANGED <<inputs, work_items, heading_ids, existing_workitems,
                   chapter_idx, root_heading_id, chapter_heading_id, output, mapvars>>

\* process_chapter returns; convert: self.work_items.extend(...)
SY_ChapterEnd ==
    /\ variant = "synthetic" /\ pc = "subchapter"
    /\ CurChapter.subchapters.kind = "missing" \/ sub_idx > Len(CurSubs)
    /\ work_items' = work_items \o items
    /\ items' = <<>>
    /\ chapter_idx' = chapter_idx + 1
    /\ pc' = "chapter"
    /\ UNCHANGED <<inputs, reported, exit_status, heading_counter, heading_ids,
                   existing_workitems, sub_idx, root_heading_id,
                   chapter_heading_id, output, mapvars>>

\* Mutant of CountType: the filter on the type is left out.
CountType_All(ws, t) == Len(ws)

CountType(ws, t) == Cardinality({i \in 1..Len(ws) : ws[i].type = t})

\* convert: the output structure and json.dump
SY_Write ==
    /\ variant = "synthetic" /\ pc = "chapter"
    /\ chapter_idx > Len(Chapters)
    /\ output' = [written |-> TRUE,
                  work_items |-> work_items,
                  metadata |->
                      [total_items |-> Len(work_items),
                       total_requirements |-> CountType(work_items, "requirement"),
                       total_headings |-> CountType(work_items, "heading")]]
    /\ pc' = "done"
    /\ exit_status' = 0
    /\ UNCHANGED <<inputs, reported, fields, locals, mapvars>>

SY_Next ==
    \/ SY_CheckInput \/ SY_Load \/ SY_Validate \/ SY_Root
    \/ SY_ChapterBegin \/ SY_Subchapter \/ SY_ChapterEnd \/ SY_Write

(* ------------------------------------------- no-headings script: functions *)
\* self.heading_ids as __init__ sets it, in insertion order.
DefaultHeadingIds ==
    << <<"root", "Python/FCTS-ROOT">>,
       <<"1. Introduction and Scope", "Python/FCTS-INTRO">>,
       <<"2. System Overview and Architecture", "Python/FCTS-ARCH">>,
       <<"3. Functional Requirements", "Python/FCTS-FUNC">>,
       <<"3.1 Primary Brake Functions", "Python/FCTS-FUNC-PRIM">>,
       <<"3.2 Advanced Brake Functions", "Python/FCTS-FUNC-ADV">>,
       <<"4. Performance Requirements", "Python/FCTS-PERF">>,
       <<"4.1 Stopping Performance", "Python/FCTS-PERF-STOP">>,
       <<"4.2 Response Time Performance", "Python/FCTS-PERF-RESP">>,
       <<"4.3 Durability Performance", "Python/FCTS-PERF-DUR">>,
       <<"5. Safety Requirements", "Python/FCTS-SAFE">>,
       <<"5.1 System Redundancy", "Python/FCTS-SAFE-RED">>,
       <<"5.2 Monitoring and Warnings", "Python/FCTS-SAFE-MON">>,
       <<"6. Interface Requirements", "Python/FCTS-INTF">>,
       <<"6.1 System Communication", "Python/FCTS-INTF-COMM">>,
       <<"6.2 Control System Integration", "Python/FCTS-INTF-CTRL">>,
       <<"6.3 Sensor Integration", "Python/FCTS-INTF-SENS">>,
       <<"7. Environmental Requirements", "Python/FCTS-ENV">>,
       <<"7.1 Temperature and Climate", "Python/FCTS-ENV-TEMP">>,
       <<"7.2 Corrosion and Protection", "Python/FCTS-ENV-CORR">>,
       <<"7.3 Mechanical Stress", "Python/FCTS-ENV-MECH">>,
       <<"8. Maintenance and Serviceability", "Python/FCTS-MAINT">>,
       <<"8.1 Wear Monitoring", "Python/FCTS-MAINT-WEAR">>,
       <<"8.2 Service Intervals", "Python/FCTS-MAINT-SERV">>,
       <<"8.3 Diagnostics and Accessibility", "Python/FCTS-MAINT-DIAG">>,
       <<"9. Regulatory Compliance", "Python/FCTS-REG">>,
       <<"9.1 International Standards", "Python/FCTS-REG-INT">>,
       <<"9.2 Safety Standards", "Python/FCTS-REG-SAFE">>,
       <<"9.3 Environmental Standards", "Python/FCTS-REG-ENV">>,
       <<"10. Verification and Validation", "Python/FCTS-TEST">>,
       <<"10.1 Performance Testing", "Python/FCTS-TEST-PERF">>,
       <<"10.2 Durability Testing", "Python/FCTS-TEST-DUR">>,
       <<"10.3 Environmental Testing", "Python/FCTS-TEST-ENV">>,
       <<"10.4 System Testing", "Python/FCTS-TEST-SYS">> >>

\* Mutant of get_heading_id: a title that is empty once its numbering is
\* removed is not searched for in the keys.
get_heading_id_NonEmpty(table, heading_title) ==
    IF \E i \in 1..Len(table) : table[i][1] = heading_title
    THEN DictGet(table, heading_title, "")
    ELSE LET cleaned_title == StripNumbering(heading_title)
             hits == {i \in 1..Len(table) : Contains(table[i][1], cleaned_title)}
         IN  IF hits # {} /\ cleaned_title # ""
             THEN table[CHOOSE i \in hits : \A j \in hits : i <= j][2]
             ELSE "Python/FCTS-UNKNOWN"

\* get_heading_id: an exact key, else the first key (in table order) that
\* contains the title without its numbering, else the fallback id.
get_heading_id(table, heading_title) ==
    IF \E i \in 1..Len(table) : table[i][1] = heading_title
    THEN DictGet(table, heading_title, "")
    ELSE LET cleaned_title == StripNumbering(heading_title)
             hits == {i \in 1..Len(table) : Contains(table[i][1], cleaned_title)}
         IN  IF hits # {}
             THEN table[CHOOSE i \in hits : \A j \in hits : i <= j][2]
             ELSE "Python/FCTS-UNKNOWN"

\* dict[key] = value: an existing key keeps its place, a new key goes last.
DictSet(table, key, value) ==
    IF \E i \in 1..Len(table) : table[i][1] = key
    THEN [i \in 1..Len(table) |->
             IF table[i][1] = key THEN <<key, value>> ELSE table[i]]
    ELSE Append(table, <<key, value>>)

\* dict.update(custom_map): the entries are stored one after the other; an
\* element of a JSON array that is no key/value pair raises, and the entries
\* stored before it stay.  An element is [ok, key, value].
RECURSIVE DictUpdate(_, _)
DictUpdate(table, elems) ==
    IF elems = <<>> THEN [table |-> table, raised |-> FALSE]
    ELSE IF ~Head(elems).ok THEN [table |-> table, raised |-> TRUE]
    ELSE DictUpdate(DictSet(table, Head(elems).key, Head(elems).value),
                    Tail(elems))

LoadFailed == "Failed to load heading map"
LoadedInfo == "Loaded custom heading mappings"

\* Mutant of load_heading_map: a failing update leaves the table untouched.
load_heading_map_Atomic(table, file) ==
    IF file.kind \in {"invalid", "scalar"}
    THEN [heading_ids |-> table, reported |-> LoadFailed]
    ELSE LET u == DictUpdate(table, file.elems)
         IN  IF u.raised
             THEN [heading_ids |-> table, reported |-> LoadFailed]
             ELSE [heading_ids |-> u.table, reported |-> LoadedInfo]

\* load_heading_map: open and json.load raise for a file that is unreadable
\* or no JSON; update raises for a JSON scalar before it stores anything.
\* Every exception is caught and reported.
load_heading_map(table, file) ==
    IF file.kind \in {"invalid", "scalar"}
    THEN [heading_ids |-> table, reported |-> LoadFailed]
    ELSE LET u == DictUpdate(table, file.elems)
         IN  [heading_ids |-> u.table,
              reported |-> IF u.raised THEN LoadFailed ELSE LoadedInfo]

\* __init__: the default table, then the custom map if the file is given
\* and exists.
NH_init(file) ==
    IF file.state = "exists"
    THEN load_heading_map(DefaultHeadingIds, file)
    ELSE [heading_ids |-> DefaultHeadingIds, reported |-> ""]

NH_priority_map ==
    << <<"Critical", "100.0">>, <<"High", "90.0">>,
       <<"Medium", "50.0">>, <<"Low", "30.0">> >>

NH_map_priority(priority) == DictGet(NH_priority_map, priority, "50.0")

NH_map_severity(category, priority) ==
    IF category = "Safety" /\ priority = "Critical" THEN "safety_critical"
    ELSE IF priority = "Critical" THEN "must_have"
    ELSE IF priority = "High" THEN "should_have"
    ELSE IF priority = "Medium" THEN "could_have"
    ELSE "nice_to_have"

NH_status_map ==
    << <<"Regulatory", "approved">>, <<"Safety", "in_review">>,
       <<"Functional", "draft">>, <<"Performance", "draft">>,
       <<"Interface", "draft">>, <<"Environmental", "draft">>,
       <<"Maintenance", "draft">>, <<"Testing", "draft">> >>

NH_map_status(category) == DictGet(NH_status_map, category, "draft")

NH_create_requirement_workitem(table, req, parent_heading_title, outline_number) ==
    [id |-> "Python/" \o req.id,
     type |-> "requirement",
     title |-> req.title,
     description |-> "<p>" \o req.description \o "</p>",
     status |-> NH_map_status(req.category),
     severity |-> NH_map_severity(req.category, req.priority),
     priority |-> NH_map_priority(req.priority),
     outlineNumber |-> outline_number,
     links |-> <<ParentLink(get_heading_id(table, parent_heading_title),
                            "Links to " \o parent_heading_title)>>]

NH_validate_input(d) ==
    IF ~d.has_document
    THEN [result |-> FALSE, message |-> "Missing 'document' key in input JSON"]
    ELSE IF \E i \in 1..Len(RequiredKeys) : RequiredKeys[i] \notin d.keys
    THEN LET i == CHOOSE i \in 1..Len(RequiredKeys) :
                    /\ RequiredKeys[i] \notin d.keys
                    /\ \A j \in 1..(i - 1) : RequiredKeys[j] \in d.keys
         IN  [result |-> FALSE,
              message |-> "Missing required key '" \o RequiredKeys[i] \o "' in document"]
    ELSE IF d.chapters_kind # "list"
    THEN [result |-> FALSE, message |-> "'chapters' must be a list"]
    ELSE [result |-> TRUE, message |-> ""]

\* process_subchapter: whether it raises (workitems is null), and its items.
NH_process_subchapter(table, subchapter, chapter_num, sub_num) ==
    LET w == subchapter.workitems
    IN  IF w.kind = "null"
        THEN [raised |-> TRUE, items |-> <<>>]
        ELSE [raised |-> FALSE,
              items |-> [idx \in 1..Len(w.items) |->
                  NH_create_requirement_workitem(table, w.items[idx], subchapter.heading,
                      ToString(chapter_num) \o "." \o ToString(sub_num) \o "."
                          \o ToString(idx))]]

\* process_chapter's loop over the subchapters, from the sub_num-th on.
RECURSIVE NH_SubchapterLoop(_, _, _, _)
NH_SubchapterLoop(table, subs, chapter_num, sub_num) ==
    IF sub_num > Len(subs) THEN [raised |-> FALSE, items |-> <<>>]
    ELSE LET r == NH_process_subchapter(table, subs[sub_num], chapter_num, sub_num)
             rest == NH_SubchapterLoop(table, subs, chapter_num, sub_num + 1)
         IN  IF r.raised THEN r
             ELSE [raised |-> rest.raised, items |-> r.items \o rest.items]

\* Mutant of NH_process_chapter: the subchapters come before the direct items.
NH_process_chapter_SubsFirst(table, chapter, chapter_num) ==
    LET w == chapter.workitems
        direct == IF w.kind # "missing" /\ Truthy(w)
                  THEN [idx \in 1..Len(w.items) |->
                          NH_create_requirement_workitem(table, w.items[idx],
                              chapter.heading,
                              ToString(chapter_num) \o "." \o ToString(idx))]
                  ELSE <<>>
        rest == IF chapter.subchapters.kind = "list"
                THEN NH_SubchapterLoop(table, chapter.subchapters.subs, chapter_num, 1)
                ELSE [raised |-> FALSE, items |-> <<>>]
    IN  [raised |-> rest.raised, items |-> rest.items \o direct]

\* process_chapter: the direct work items (when "workitems" is present and
\* truthy), then every subchapter's.
NH_process_chapter(table, chapter, chapter_num) ==
    LET w == chapter.workitems
        direct == IF w.kind # "missing" /\ Truthy(w)
                  THEN [idx \in 1..Len(w.items) |->
                          NH_create_requirement_workitem(table, w.items[idx],
                              chapter.heading,
                              ToString(chapter_num) \o "." \o ToString(idx))]
                  ELSE <<>>
        rest == IF chapter.subchapters.kind = "list"
                THEN NH_SubchapterLoop(table, chapter.subchapters.subs, chapter_num, 1)
                ELSE [raised |-> FALSE, items |-> <<>>]
    IN  [raised |-> rest.raised, items |-> direct \o rest.items]

(* --------------------------------------------- no-headings script: convert *)
NH_CheckInput ==
    /\ variant = "no_headings" /\ pc = "start"
    /\ IF input_file = "missing"
       THEN Exit1("Input file not found")
       ELSE pc' = "load" /\ UNCHANGED <<reported, exit_status>>
    /\ UNCHANGED <<inputs, fields, locals, output, mapvars>>

NH_Load ==
    /\ variant = "no_headings" /\ pc = "load"
    /\ IF input_file = "invalid"
       THEN Exit1("Invalid JSON in input file")
       ELSE pc' = "validate" /\ UNCHANGED <<reported, exit_status>>
    /\ UNCHANGED <<inputs, fields, locals, output, mapvars>>

NH_Validate ==
    /\ variant = "no_headings" /\ pc = "validate"
    /\ LET v == NH_validate_input(data)
       IN  IF v.result
           THEN pc' = "chapter" /\ chapter_idx' = 1
                /\ UNCHANGED <<reported, exit_status>>
           ELSE Exit1(v.message) /\ UNCHANGED chapter_idx
    /\ UNCHANGED <<inputs, fields, items, sub_idx, root_heading_id,
                   chapter_heading_id, output, mapvars>>

\* convert: self.work_items.extend(self.process_chapter(chapter, chapter_num))
NH_Chapter ==
    /\ variant = "no_headings" /\ pc = "chapter"
    /\ chapter_idx <= Len(Chapters)
    /\ LET r == NH_process_chapter(heading_ids, CurChapter, chapter_idx)
       IN  IF r.raised
           THEN /\ Exit1("Unexpected error: TypeError")
                /\ UNCHANGED <<work_items, chapter_idx>>
           ELSE /\ work_items' = work_items \o r.items
                /\ chapter_idx' = chapter_idx + 1
                /\ UNCHANGED <<pc, reported, exit_status>>
    /\ UNCHANGED <<inputs, heading_counter, heading_ids, existing_workitems,
                   items, sub_idx, root_heading_id, chapter_heading_id, output,
                   mapvars>>

\* convert: the output structure (which reads document["version"]), json.dump
\* and save_heading_map.
NH_Write ==
    /\ variant = "no_headings" /\ pc = "chapter"
    /\ chapter_idx > Len(Chapters)
    /\ IF "version" \in data.keys
       THEN /\ output' = [written |-> TRUE,
                          work_items |-> work_items,
                          metadata |->
                              [total_items |-> Len(work_items),
                               total_requirements |->
                                   CountType(work_items, "requirement")],
                          heading_map |-> heading_ids]
            /\ pc' = "done"
            /\ exit_status' = 0
            /\ UNCHANGED reported
       ELSE Exit1("Unexpected error: KeyError") /\ UNCHANGED output
    /\ UNCHANGED <<inputs, fields, locals, mapvars>>

NH_Next == NH_CheckInput \/ NH_Load \/ NH_Validate \/ NH_Chapter \/ NH_Write

(* ---------------------------------------------------------- heading script *)
\* self.timestamp: the clock's reading when the converter was constructed.
Timestamp == "20250809_114945"

\* Mutant of HD_priority_map: High is medium.
HD_priority_map_HighMedium ==
    << <<"Critical", "high">>, <<"High", "medium">>,
       <<"Medium", "medium">>, <<"Low", "low">> >>

HD_priority_map ==
    << <<"Critical", "high">>, <<"High", "high">>,
       <<"Medium", "medium">>, <<"Low", "low">> >>

\* Mutant of HD_severity_map: Safety is must_have whatever the priority.
HD_severity_map_Flat(requirement) ==
    << <<"Safety", "must_have">>,
       <<"Functional", "must_have">>, <<"Performance", "must_have">>,
       <<"Interface", "should_have">>, <<"Environmental", "should_have">>,
       <<"Maintenance", "could_have">>, <<"Regulatory", "must_have">>,
       <<"Testing", "should_have">> >>

HD_severity_map(requirement) ==
    << <<"Safety", IF requirement.priority = "Critical"
                   THEN "safety_critical" ELSE "must_have">>,
       <<"Functional", "must_have">>, <<"Performance", "must_have">>,
       <<"Interface", "should_have">>, <<"Environmental", "should_have">>,
       <<"Maintenance", "could_have">>, <<"Regulatory", "must_have">>,
       <<"Testing", "should_have">> >>

\* requirement.get(key, default)
ReqGet(value, default) == IF value = Missing THEN default ELSE value

HD_create_workitem_format(requirement, parent_heading_id, parent_heading_title) ==
    [work_item |->
        [type |-> "requirement",
         title |-> requirement.title \o " " \o Timestamp,
         description |-> "<p>" \o requirement.description \o "</p>",
         status |-> "draft",
         severity |-> DictGet(HD_severity_map(requirement),
                              ReqGet(requirement.category, "Functional"), "must_have"),
         priority |-> DictGet(HD_priority_map,
                              ReqGet(requirement.priority, "Medium"), "medium")],
     links |-> <<ParentLink(parent_heading_id, "Links to " \o parent_heading_title)>>,
     children |-> <<>>]

\* heading_map.get(heading_id, heading), heading_map a sequence of [id, title].
HeadingTitle(hm, heading_id, heading) ==
    IF \E i \in 1..Len(hm) : hm[i].id = heading_id
    THEN hm[CHOOSE i \in 1..Len(hm) : hm[i].id = heading_id].title
    ELSE heading

\* The work items of one heading (a chapter or a subchapter), each linked to
\* that heading: nothing when "workitems" is absent or falsy.
HD_HeadingItems(hm, node) ==
    LET heading_id == ReqGet(node.heading_id, "")
        title == HeadingTitle(hm, heading_id, node.heading)
        w == node.workitems
    IN  IF w.kind # "missing" /\ Truthy(w)
        THEN [i \in 1..Len(w.items) |->
                HD_create_workitem_format(w.items[i], heading_id, title)]
        ELSE <<>>

RECURSIVE HD_SubchapterLoop(_, _, _)
HD_SubchapterLoop(hm, subs, j) ==
    IF j > Len(subs) THEN <<>>
    ELSE HD_HeadingItems(hm, subs[j]) \o HD_SubchapterLoop(hm, subs, j + 1)

\* Mutant of HD_ChapterItems: a subchapter's items are linked to the chapter.
HD_ChapterItems_LinkChapter(hm, chapter) ==
    HD_HeadingItems(hm, chapter) \o
    HD_SubchapterLoop(hm,
        [j \in 1..Len(chapter.subchapters.subs) |->
            [chapter.subchapters.subs[j] EXCEPT !.heading_id = chapter.heading_id]],
        1)

\* Mutant of HD_ChapterItems: the subchapters come before the direct items.
HD_ChapterItems_SubsFirst(hm, chapter) ==
    HD_SubchapterLoop(hm, chapter.subchapters.subs, 1) \o
    HD_HeadingItems(hm, chapter)

\* One iteration of process_requirements' loop over the chapters.
HD_ChapterItems(hm, chapter) ==
    HD_HeadingItems(hm, chapter) \o
    HD_SubchapterLoop(hm, chapter.subchapters.subs, 1)

\* brake_data.get("document", {}).get("chapters", []): present or defaulted.
ChaptersPresent(d) == d.has_document /\ "chapters" \in d.keys

\* main: both input files must exist
HD_Main ==
    /\ variant = "headings" /\ pc = "start"
    /\ IF input_file = "missing"
       THEN Exit1("Input file not found")
       ELSE pc' = "load" /\ UNCHANGED <<reported, exit_status>>
    /\ UNCHANGED <<inputs, fields, locals, output, mapvars>>

\* run: the two loads; a file that is not JSON ends the script with a traceback
HD_Load ==
    /\ variant = "headings" /\ pc = "load"
    /\ IF input_file = "invalid"
       THEN Exit1("Traceback: JSONDecodeError")
       ELSE pc' = "begin" /\ UNCHANGED <<reported, exit_status>>
    /\ UNCHANGED <<inputs, fields, locals, output, mapvars>>

\* process_requirements up to its loop: iterating a null "chapters" raises
HD_Begin ==
    /\ variant = "headings" /\ pc = "begin"
    /\ IF ChaptersPresent(data) /\ data.chapters_kind = "null"
       THEN Exit1("Traceback: TypeError") /\ UNCHANGED chapter_idx
       ELSE pc' = "chapter" /\ chapter_idx' = 1
            /\ UNCHANGED <<reported, exit_status>>
    /\ UNCHANGED <<inputs, fields, items, sub_idx, root_heading_id,
                   chapter_heading_id, output, mapvars>>

\* process_requirements: one chapter
HD_Chapter ==
    /\ variant = "headings" /\ pc = "chapter"
    /\ ChaptersPresent(data) /\ chapter_idx <= Len(Chapters)
    /\ work_items' = work_items \o HD_ChapterItems(heading_map, CurChapter)
    /\ chapter_idx' = chapter_idx + 1
    /\ UNCHANGED <<inputs, pc, reported, exit_status, heading_counter,
                   heading_ids, existing_workitems, items, sub_idx,
                   root_heading_id, chapter_heading_id, output, mapvars>>

\* run: the output structure and json.dump
HD_Write ==
    /\ variant = "headings" /\ pc = "chapter"
    /\ ~ChaptersPresent(data) \/ chapter_idx > Len(Chapters)
    /\ output' = [written |-> TRUE,
                  work_items |-> work_items,
                  metadata |-> [total_items |-> Len(work_items)]]
    /\ pc' = "done"
    /\ exit_status' = 0
    /\ UNCHANGED <<inputs, reported, fields, locals, mapvars>>

HD_Next == HD_Main \/ HD_Load \/ HD_Begin \/ HD_Chapter \/ HD_Write

(* ----------------------------------------------------------- bundle script *)
None == [type |-> "None"]

\* self.existing_workitems[item_id] = {...}: a new key is appended, a known
\* key keeps its place and gets the new value.
DictPut(dict, item) ==
    IF \E i \in 1..Len(dict) : dict[i].id = item.id
    THEN [i \in 1..Len(dict) |-> IF dict[i].id = item.id THEN item ELSE dict[i]]
    ELSE Append(dict, item)

RECURSIVE LoadItems(_, _)
LoadItems(dict, its) ==
    IF its = <<>> THEN dict ELSE LoadItems(DictPut(dict, Head(its)), Tail(its))

InDict(dict, id) == \E i \in 1..Len(dict) : dict[i].id = id

mapping_rules ==
    << [category |-> "functional",
        keywords |-> <<"mcp", "framework", "integration", "server", "composite">>,
        preferred |-> <<"Python/FCTS-9156", "Python/FCTS-9157", "Python/FCTS-9158">>],
       [category |-> "safety",
        keywords |-> <<"safety", "goal", "critical">>,
        preferred |-> <<"Python/FCTS-9155">>],
       [category |-> "testing",
        keywords |-> <<"test", "validation", "verification">>,
        preferred |-> <<"Python/FCTS-9159", "Python/FCTS-9160", "Python/FCTS-9179",
                        "Python/FCTS-9180">>],
       [category |-> "interface",
        keywords |-> <<"interface", "communication", "integration">>,
        preferred |-> <<"Python/FCTS-9158", "Python/FCTS-9173">>],
       [category |-> "performance",
        keywords |-> <<"performance", "response", "efficiency">>,
        preferred |-> <<"Python/FCTS-9175", "Python/FCTS-9178">>] >>

\* The least element of a non-empty set of indices, or 0.
Least(S) == IF S = {} THEN 0 ELSE CHOOSE i \in S : \A j \in S : i <= j

\* Index of the rule of a category (dict lookup), or 0.
RuleIndex(category) ==
    Least({i \in 1..Len(mapping_rules) : mapping_rules[i].category = category})

\* Index of the first id of preferred that is a key of existing, or 0.
FirstPreferred(existing, preferred) ==
    Least({i \in 1..Len(preferred) : InDict(existing, preferred[i])})

\* Mutant of map_requirement_to_parent: the search for the first existing
\* requirement is left out.
map_requirement_to_parent_NoSearch(existing, requirement) ==
    LET category == Lower(ReqGet(requirement.category, ""))
        title == Lower(ReqGet(requirement.title, ""))
        r == RuleIndex(category)
        KeywordHit == r # 0 /\ \E k \in 1..Len(mapping_rules[r].keywords) :
                          Contains(title, mapping_rules[r].keywords[k])
        p == IF r = 0 THEN 0 ELSE FirstPreferred(existing, mapping_rules[r].preferred)
    IN  IF KeywordHit /\ p # 0 THEN mapping_rules[r].preferred[p]
        ELSE "Python/FCTS-9156"

map_requirement_to_parent(existing, requirement) ==
    LET category == Lower(ReqGet(requirement.category, ""))
        title == Lower(ReqGet(requirement.title, ""))
        r == RuleIndex(category)
        KeywordHit == r # 0 /\ \E k \in 1..Len(mapping_rules[r].keywords) :
                          Contains(title, mapping_rules[r].keywords[k])
        p == IF r = 0 THEN 0 ELSE FirstPreferred(existing, mapping_rules[r].preferred)
        q == Least({i \in 1..Len(existing) : existing[i].type = "requirement"})
    IN  IF KeywordHit /\ p # 0 THEN mapping_rules[r].preferred[p]
        ELSE IF InDict(existing, "Python/FCTS-9156") THEN "Python/FCTS-9156"
        ELSE IF q # 0 THEN existing[q].id
        ELSE "Python/FCTS-9156"

EX_priority_map ==
    << <<"Critical", "high">>, <<"High", "high">>,
       <<"Medium", "medium">>, <<"Low", "low">> >>

EX_severity_map(requirement) ==
    << <<"Safety", IF requirement.priority = "Critical"
                   THEN "safety_critical" ELSE "must_have">>,
       <<"Functional", "must_have">>, <<"Performance", "must_have">>,
       <<"Interface", "should_have">>, <<"Environmental", "should_have">>,
       <<"Maintenance", "could_have">>, <<"Regulatory", "must_have">>,
       <<"Testing", "should_have">> >>

create_workitem_exact_format(requirement, parent_id) ==
    [type |-> "requirement",
     title |-> requirement.title \o " " \o Timestamp,
     description |-> "<p>" \o requirement.description \o "</p>",
     status |-> "draft",
     severity |-> DictGet(EX_severity_map(requirement),
                          ReqGet(requirement.category, "Functional"), "must_have"),
     priority |-> DictGet(EX_priority_map,
                          ReqGet(requirement.priority, "Medium"), "medium")]

\* Mutant of create_links: the extra link is added only when its target is a
\* known work item other than the parent.
create_links_Guarded(existing, requirement, parent_id) ==
    LET category == ReqGet(requirement.category, "")
        target == IF category = "Safety" THEN "Python/FCTS-9155"
                  ELSE "Python/FCTS-9160"
    IN  <<ParentLink(parent_id, "Links to parent requirement")>> \o
        (IF /\ category \in {"Safety", "Testing"}
            /\ InDict(existing, target) /\ target # parent_id
         THEN <<[target_id |-> target,
                 role |-> IF category = "Safety" THEN "relates_to" ELSE "verifies",
                 description |-> "Related"]>>
         ELSE <<>>)

create_links(existing, requirement, parent_id) ==
    LET parent_title ==
            IF InDict(existing, parent_id)
            THEN existing[Least({i \in 1..Len(existing) :
                                    existing[i].id = parent_id})].title
            ELSE "parent requirement"
        category == ReqGet(requirement.category, "")
    IN  <<ParentLink(parent_id, "Links to " \o parent_title)>> \o
        (IF category = "Safety"
         THEN <<[target_id |-> "Python/FCTS-9155", role |-> "relates_to",
                 description |-> "Related to MCP Safety Goal"]>>
         ELSE IF category = "Testing"
         THEN <<[target_id |-> "Python/FCTS-9160", role |-> "verifies",
                 description |-> "Verifies MCP Test Case"]>>
         ELSE <<>>)

\* Mutant of EX_Extend: the work items are put in front of the list.
EX_Extend_Prepend(acc, node) ==
    IF acc.raised \/ node.workitems.kind = "missing" THEN acc
    ELSE IF node.workitems.kind = "null" THEN [raised |-> TRUE, reqs |-> acc.reqs]
    ELSE [raised |-> FALSE, reqs |-> node.workitems.items \o acc.reqs]

\* all_requirements.extend(node["workitems"]) when the key is present:
\* extending by null raises TypeError.
EX_Extend(acc, node) ==
    IF acc.raised \/ node.workitems.kind = "missing" THEN acc
    ELSE IF node.workitems.kind = "null" THEN [raised |-> TRUE, reqs |-> acc.reqs]
    ELSE [raised |-> FALSE, reqs |-> acc.reqs \o node.workitems.items]

RECURSIVE EX_ExtendAll(_, _, _)
EX_ExtendAll(acc, nodes, j) ==
    IF j > Len(nodes) THEN acc
    ELSE EX_ExtendAll(EX_Extend(acc, nodes[j]), nodes, j + 1)

\* convert_requirements' first loop: every requirement in document order.
RECURSIVE all_requirements(_, _, _)
all_requirements(acc, chapters, c) ==
    IF c > Len(chapters) THEN acc
    ELSE all_requirements(
            EX_ExtendAll(EX_Extend(acc, chapters[c]),
                         chapters[c].subchapters.subs, 1),
            chapters, c + 1)

convert_requirements(existing, d) ==
    LET chapters == IF ChaptersPresent(d) THEN d.chapters ELSE <<>>
        all == all_requirements([raised |-> FALSE, reqs |-> <<>>], chapters, 1)
        reqs == all.reqs
    IN  IF all.raised \/ (ChaptersPresent(d) /\ d.chapters_kind = "null")
        THEN [raised |-> TRUE, output |-> NoOutput]
        ELSE IF reqs = <<>>
        THEN [raised |-> FALSE,
              output |-> [written |-> TRUE, work_item |-> None, links |-> <<>>,
                          children |-> <<>>]]
        ELSE [raised |-> FALSE,
              output |->
                [written |-> TRUE,
                 work_item |-> create_workitem_exact_format(reqs[1],
                                   map_requirement_to_parent(existing, reqs[1])),
                 links |-> create_links(existing, reqs[1],
                               map_requirement_to_parent(existing, reqs[1])),
                 children |-> [i \in 1..(Len(reqs) - 1) |->
                     create_workitem_exact_format(reqs[i + 1],
                         map_requirement_to_parent(existing, reqs[i + 1]))]]]

\* run: load_project_analysis; the script ends when the document is not found
EX_LoadAnalysis ==
    /\ variant = "exact" /\ pc = "start"
    /\ IF analysis.found
       THEN /\ existing_workitems' = LoadItems(existing_workitems, analysis.items)
            /\ pc' = "load"
            /\ UNCHANGED <<reported, exit_status>>
       ELSE Exit1("Could not find document") /\ UNCHANGED existing_workitems
    /\ UNCHANGED <<inputs, work_items, heading_counter, heading_ids, locals,
                   output, mapvars>>

\* run: load_brake_requirements; no file or no JSON ends with a traceback
EX_Load ==
    /\ variant = "exact" /\ pc = "load"
    /\ IF input_file # "valid"
       THEN Exit1("Traceback: load_brake_requirements")
       ELSE pc' = "convert" /\ UNCHANGED <<reported, exit_status>>
    /\ UNCHANGED <<inputs, fields, locals, output, mapvars>>

\* run: convert_requirements and json.dump of what it returns
EX_Convert ==
    /\ variant = "exact" /\ pc = "convert"
    /\ LET r == convert_requirements(existing_workitems, data)
       IN  IF r.raised
           THEN Exit1("Traceback: TypeError") /\ UNCHANGED output
           ELSE /\ output' = r.output
                /\ pc' = "done"
                /\ exit_status' = 0
                /\ UNCHANGED reported
    /\ UNCHANGED <<inputs, fields, locals, mapvars>>

EX_Next == EX_LoadAnalysis \/ EX_Load \/ EX_Convert

(* ------------------------------------------------------- individual script *)
\* match_heading_to_workitem's heading_map, in the order the dict is written.
IN_heading_map ==
    << <<"functional", <<"Python/FCTS-9156", "Python/FCTS-9157", "Python/FCTS-9158">> >>,
       <<"primary", <<"Python/FCTS-9157">> >>,
       <<"advanced", <<"Python/FCTS-9158">> >>,
       <<"brake function", <<"Python/FCTS-9156", "Python/FCTS-9157">> >>,
       <<"performance", <<"Python/FCTS-9175", "Python/FCTS-9178">> >>,
       <<"stopping", <<"Python/FCTS-9175">> >>,
       <<"response", <<"Python/FCTS-9178">> >>,
       <<"durability", <<"Python/FCTS-9175">> >>,
       <<"safety", <<"Python/FCTS-9155">> >>,
       <<"redundancy", <<"Python/FCTS-9155">> >>,
       <<"monitoring", <<"Python/FCTS-9155">> >>,
       <<"warning", <<"Python/FCTS-9155">> >>,
       <<"interface", <<"Python/FCTS-9173", "Python/FCTS-9158">> >>,
       <<"communication", <<"Python/FCTS-9173">> >>,
       <<"integration", <<"Python/FCTS-9158", "Python/FCTS-9173">> >>,
       <<"sensor", <<"Python/FCTS-9173">> >>,
       <<"environmental", <<"Python/FCTS-9181", "Python/FCTS-9178">> >>,
       <<"temperature", <<"Python/FCTS-9181">> >>,
       <<"corrosion", <<"Python/FCTS-9181">> >>,
       <<"maintenance", <<"Python/FCTS-9167", "Python/FCTS-9168">> >>,
       <<"service", <<"Python/FCTS-9167">> >>,
       <<"diagnostic", <<"Python/FCTS-9168">> >>,
       <<"regulatory", <<"Python/FCTS-9156", "Python/FCTS-9155">> >>,
       <<"compliance", <<"Python/FCTS-9156">> >>,
       <<"standard", <<"Python/FCTS-9156">> >>,
       <<"testing", <<"Python/FCTS-9159", "Python/FCTS-9160", "Python/FCTS-9179",
                      "Python/FCTS-9180">> >>,
       <<"verification", <<"Python/FCTS-9159", "Python/FCTS-9179">> >>,
       <<"validation", <<"Python/FCTS-9160", "Python/FCTS-9180">> >>,
       <<"test", <<"Python/FCTS-9159", "Python/FCTS-9160">> >> >>

\* re.sub(r'^\d+\.?\d*\s+', '', heading).lower(); "" for a subchapter that is
\* None (written Missing) or empty.
IN_Clean(heading) ==
    IF heading = Missing THEN "" ELSE Lower(StripNumbering(heading))

\* One of the two loops over heading_map: the index of the first keyword that
\* occurs in the cleaned heading and has a preferred id in existing, or 0.
IN_FirstKeyword(existing, clean) ==
    Least({k \in 1..Len(IN_heading_map) :
              /\ Contains(clean, IN_heading_map[k][1])
              /\ FirstPreferred(existing, IN_heading_map[k][2]) # 0})

\* The id that loop returns, for a keyword index that is not 0.
IN_KeywordId(existing, k) ==
    IN_heading_map[k][2][FirstPreferred(existing, IN_heading_map[k][2])]

\* Mutant of match_heading_to_workitem: the chapter is tried before the
\* subchapter.
match_heading_to_workitem_ChapterFirst(existing, chapter, subchapter) ==
    LET chapter_clean == IN_Clean(chapter)
        subchapter_clean == IN_Clean(subchapter)
        ks == IF subchapter_clean # "" THEN IN_FirstKeyword(existing, subchapter_clean)
              ELSE 0
        kc == IN_FirstKeyword(existing, chapter_clean)
    IN  IF kc # 0 THEN IN_KeywordId(existing, kc)
        ELSE IF ks # 0 THEN IN_KeywordId(existing, ks)
        ELSE "Python/FCTS-9156"

match_heading_to_workitem(existing, chapter, subchapter) ==
    LET chapter_clean == IN_Clean(chapter)
        subchapter_clean == IN_Clean(subchapter)
        ks == IF subchapter_clean # "" THEN IN_FirstKeyword(existing, subchapter_clean)
              ELSE 0
        kc == IN_FirstKeyword(existing, chapter_clean)
    IN  IF ks # 0 THEN IN_KeywordId(existing, ks)
        ELSE IF kc # 0 THEN IN_KeywordId(existing, kc)
        ELSE "Python/FCTS-9156"

IN_priority_map ==
    << <<"Critical", "high">>, <<"High", "high">>,
       <<"Medium", "medium">>, <<"Low", "low">> >>

IN_severity_map(requirement) ==
    << <<"Safety", IF requirement.priority = "Critical"
                   THEN "safety_critical" ELSE "must_have">>,
       <<"Functional", "must_have">>, <<"Performance", "must_have">>,
       <<"Interface", "should_have">>, <<"Environmental", "should_have">>,
       <<"Maintenance", "could_have">>, <<"Regulatory", "must_have">>,
       <<"Testing", "should_have">> >>

\* The title of an existing work item: self.existing_workitems[id]['title'].
IN_TitleOf(existing, id) ==
    existing[Least({i \in 1..Len(existing) : existing[i].id = id})].title

IN_test_items ==
    <<"Python/FCTS-9159", "Python/FCTS-9160", "Python/FCTS-9179", "Python/FCTS-9180">>

\* create_workitem_format: the additional links, by category.
IN_ExtraLinks(existing, requirement, parent_id) ==
    LET category == ReqGet(requirement.category, "")
        t == Least({i \in 1..Len(IN_test_items) :
                       /\ IN_test_items[i] # parent_id
                       /\ InDict(existing, IN_test_items[i])})
    IN  IF category = "Safety" /\ parent_id # "Python/FCTS-9155"
        THEN <<[target_id |-> "Python/FCTS-9155", role |-> "relates_to",
                description |-> "Related to MCP Safety Goal"]>>
        ELSE IF category = "Testing" /\ t # 0
        THEN <<[target_id |-> IN_test_items[t], role |-> "verifies",
                description |-> "Verifies " \o IN_TitleOf(existing, IN_test_items[t])]>>
        ELSE <<>>

IN_create_workitem_format(existing, requirement, parent_id, chapter, subchapter) ==
    LET link_description ==
            "Links to " \o (IF subchapter # Missing /\ subchapter # ""
                            THEN subchapter ELSE chapter)
        parent_title == IF InDict(existing, parent_id)
                        THEN IN_TitleOf(existing, parent_id)
                        ELSE "parent requirement"
    IN  [work_item |->
            [type |-> "requirement",
             title |-> requirement.title \o " " \o Timestamp,
             description |-> "<p>" \o requirement.description \o "</p>",
             status |-> "draft",
             severity |-> DictGet(IN_severity_map(requirement),
                                  ReqGet(requirement.category, "Functional"),
                                  "must_have"),
             priority |-> DictGet(IN_priority_map,
                                  ReqGet(requirement.priority, "Medium"), "medium")],
         links |-> <<ParentLink(parent_id, link_description \o " - " \o parent_title)>>
                   \o IN_ExtraLinks(existing, requirement, parent_id),
         children |-> <<>>]

(* --------------------------------------------------------- specification *)
NoMapCall ==
    /\ m_arg = [category |-> Missing, priority |-> Missing]
    /\ m_fn = "none"
    /\ m_ret = "none"

InitState ==
    /\ pc = "start"
    /\ reported = ""
    /\ exit_status = -1
    /\ work_items = <<>>
    /\ existing_workitems = <<>>
    /\ items = <<>>
    /\ chapter_idx = 0
    /\ sub_idx = 0
    /\ root_heading_id = ""
    /\ chapter_heading_id = ""
    /\ output = NoOutput

ShortChapterLists == {cs \in ChapterLists : Len(cs) <= 1}

\* A document that validate_input accepts but that lacks "version".
VersionlessData ==
    [has_document : {TRUE},
     keys : {DocKeys \ {"version"}},
     chapters_kind : {"list"},
     chapters : ShortChapterLists]

InitInput ==
    \/ input_file \in {"missing", "invalid"} /\ data = NoData
    \/ /\ input_file = "valid"
       /\ data \in WellFormedData \cup VersionlessData \cup MalformedData

DefaultAnalysis ==
    CHOOSE a \in Analyses : a.found /\ Len(a.items) > 0 /\ a.items[1].type = "heading"

Init ==
    /\ InitState
    /\ NoMapCall
    /\ InitInput
    /\ \/ /\ variant = "synthetic"
          /\ heading_counter = InitialHeadingCounter
          /\ heading_ids = <<>>
          /\ heading_map = <<>>
          /\ analysis = DefaultAnalysis
       \/ /\ variant = "no_headings"
          /\ heading_counter = 0
          /\ heading_ids = DefaultHeadingIds
          /\ heading_map = <<>>
          /\ analysis = DefaultAnalysis
       \/ /\ variant = "headings"
          /\ heading_counter = 0
          /\ heading_ids = <<>>
          /\ heading_map \in HeadingMaps
          /\ heading_map # <<>> => Len(data.chapters) <= 1
          /\ analysis = DefaultAnalysis
       \/ /\ variant = "exact"
          /\ heading_counter = 0
          /\ heading_ids = <<>>
          /\ heading_map = <<>>
          /\ analysis \in Analyses
          /\ analysis # DefaultAnalysis => Len(data.chapters) <= 1

Next == SY_Next \/ NH_Next \/ HD_Next \/ EX_Next

Spec == Init /\ [][Next]_vars

(* ------------------------------------------- single calls of the functions *)
Priorities ==
    {"Critical", "High", "Medium", "Low", "critical", "Urgent", "", Missing}

Categories ==
    {"Safety", "Functional", "Performance", "Interface", "Environmental",
     "Maintenance", "Regulatory", "Testing", "safety", "Other", Missing}

\* The arguments of one call: a requirement's fields, or a parsed input file.
ReqArgs == [kind : {"req"}, category : Categories, priority : Priorities]
DataArgs ==
    [kind : {"data"},
     data : MalformedData \cup
            {d \in WellFormedData : Len(d.chapters) = 0 \/ d.chapters = <<IdlessChapter>>}]

\* A requirement with the given category and priority (Missing: key absent).
MakeReq(category, priority) ==
    [id |-> "BR-900", title |-> "Brake pedal feel",
     description |-> "Shall feel firm", category |-> category, priority |-> priority]

PairCategories == {"Safety", "Functional", "Maintenance", "Testing", "Other", Missing}
PairPriorities == {"Critical", "High", "Medium", "Urgent", Missing}

\* Two requirements, converted by the same script.
PairArgs ==
    [kind : {"pair"},
     first : [category : PairCategories, priority : PairPriorities],
     second : [category : PairCategories, priority : PairPriorities]]

\* An entry of self.existing_workitems, as load_project_analysis stores it.
WI(n, type) ==
    [id |-> "Python/FCTS-" \o ToString(n), type |-> type,
     title |-> "Work item " \o ToString(n)]

\* self.existing_workitems after load_project_analysis, in insertion order.
ExistingOpts ==
    { <<>>,
      <<WI(9156, "requirement")>>,
      <<WI(9154, "heading"), WI(9157, "requirement"), WI(9155, "requirement")>>,
      <<WI(9158, "requirement"), WI(9173, "requirement"), WI(9175, "requirement")>>,
      <<WI(9160, "testcase"), WI(9178, "requirement"), WI(9159, "testcase")>>,
      <<WI(9154, "heading"), WI(9160, "testcase")>> }

\* Chapter headings and subchapter headings (Missing: None, a direct item).
ChapterTitles ==
    {"3. Functional Requirements", "5. Safety Requirements",
     "Performance Requirements", "11. Appendix", "9. Testing and Validation",
     "4 Interface Integration"}

SubchapterTitles ==
    {Missing, "", "3.1 Primary Brake Functions", "5.2 Monitoring and Warnings",
     "Stopping Performance", "Glossary", "12 ", "3.1.2 Sensor Test"}

HeadingArgs ==
    [kind : {"heading"}, chapter : ChapterTitles, subchapter : SubchapterTitles,
     existing : ExistingOpts]

\* A requirement's category and title (Missing: key absent), and the
\* existing work items, for map_requirement_to_parent.
ParentArgs ==
    [kind : {"parent"},
     category : {"Safety", "functional", "Testing", "Interface", "Performance",
                 "Other", Missing},
     title : {"ABS server integration", "Service brake Safety Goal",
              "Brake fade test", "Pad wear indication", "Response time", Missing},
     existing : ExistingOpts]

\* The --heading-map file: not given, given but absent, or present with a
\* content that is unreadable, a JSON scalar, a JSON object, or a JSON array.
Entry(key, value) == [ok |-> TRUE, key |-> key, value |-> value]
NoPair == [ok |-> FALSE, key |-> Missing, value |-> Missing]
MapFile(state, kind, elems) == [state |-> state, kind |-> kind, elems |-> elems]

HeadingMapFiles ==
    { MapFile("not_given", "none", <<>>),
      MapFile("absent", "none", <<>>),
      MapFile("exists", "invalid", <<>>),
      MapFile("exists", "scalar", <<>>),
      MapFile("exists", "object", <<>>),
      MapFile("exists", "object",
              << Entry("3. Functional Requirements", "Python/FCTS-9001"),
                 Entry("11 Appendix", "Python/FCTS-9002") >>),
      MapFile("exists", "array", << NoPair >>),
      MapFile("exists", "array",
              << Entry("root", "Python/FCTS-9003"), NoPair >>) }

HeadingTitles ==
    { "3. Functional Requirements", "root", "10.4 System Testing",
      "Functional Requirements", "4 Stopping Performance", "Requirements",
      "Safety Standards", "3.1", "o", "", "12 ", "11 Appendix",
      "functional requirements" }

TitleArgs == [kind : {"title"}, title : HeadingTitles, file : HeadingMapFiles]

\* A requirement's category, the parent chosen for it and the known work items.
LinkArgs ==
    [kind : {"link"},
     category : {"Safety", "Testing", "safety", "Functional", "", Missing},
     parent_id : {"Python/FCTS-9155", "Python/FCTS-9160", "Python/FCTS-9156",
                  "Python/FCTS-9157"},
     existing : ExistingOpts]

MapArgs ==
    ReqArgs \cup DataArgs \cup PairArgs \cup HeadingArgs \cup ParentArgs
        \cup TitleArgs \cup LinkArgs

Idle ==
    /\ variant = "none"
    /\ input_file = "missing"
    /\ data = NoData
    /\ heading_map = <<>>
    /\ analysis = DefaultAnalysis
    /\ heading_counter = 0
    /\ heading_ids = <<>>

InitMap ==
    /\ InitState
    /\ Idle
    /\ m_arg \in MapArgs
    /\ m_fn = "none"
    /\ m_ret = "none"

Call(fn, ret) ==
    /\ m_fn = "none"
    /\ m_fn' = fn
    /\ m_ret' = ret
    /\ UNCHANGED <<inputs, pc, reported, exit_status, fields, locals, output, m_arg>>

\* req["priority"] is read before the call: the key is present
Call_map_priority ==
    /\ m_arg.kind = "req" /\ m_arg.priority # Missing
    /\ Call("map_priority", map_priority(m_arg.priority))

Call_NH_map_priority ==
    /\ m_arg.kind = "req" /\ m_arg.priority # Missing
    /\ Call("NH_map_priority", NH_map_priority(m_arg.priority))

Call_validate_input ==
    /\ m_arg.kind = "data"
    /\ Call("validate_input", validate_input(m_arg.data))

Call_NH_validate_input ==
    /\ m_arg.kind = "data"
    /\ Call("NH_validate_input", NH_validate_input(m_arg.data))

\* The functions that set an output requirement's severity, one per script.
SeverityFns ==
    {"map_severity", "NH_map_severity", "HD_create_workitem_format",
     "create_workitem_exact_format", "IN_create_workitem_format"}

\* The severity the script's function gives a requirement.
SeverityBy(fn, r) ==
    CASE fn = "map_severity" -> map_severity(r.category, r.priority)
      [] fn = "NH_map_severity" -> NH_map_severity(r.category, r.priority)
      [] fn = "HD_create_workitem_format" ->
            HD_create_workitem_format(MakeReq(r.category, r.priority),
                                      "", "").work_item.severity
      [] fn = "create_workitem_exact_format" ->
            create_workitem_exact_format(MakeReq(r.category, r.priority), "").severity
      [] OTHER ->
            IN_create_workitem_format(<<>>, MakeReq(r.category, r.priority),
                                      "", "", Missing).work_item.severity

\* req["category"] and req["priority"] raise KeyError on an absent key.
KeysPresent(r) == r.category # Missing /\ r.priority # Missing

\* Two requirements converted by one script: their severities.
Call_severity_pair ==
    /\ m_arg.kind = "pair"
    /\ \E fn \in SeverityFns :
        /\ fn \in {"map_severity", "NH_map_severity"} =>
               KeysPresent(m_arg.first) /\ KeysPresent(m_arg.second)
        /\ Call(fn, [first |-> SeverityBy(fn, m_arg.first),
                     second |-> SeverityBy(fn, m_arg.second)])

\* req["category"] is read before the call: the key is present
Call_map_status ==
    /\ m_arg.kind = "req" /\ m_arg.category # Missing
    /\ Call("map_status", map_status(m_arg.category))

Call_NH_map_status ==
    /\ m_arg.kind = "req" /\ m_arg.category # Missing
    /\ Call("NH_map_status", NH_map_status(m_arg.category))

Call_map_severity ==
    /\ m_arg.kind = "req" /\ KeysPresent(m_arg)
    /\ Call("map_severity", map_severity(m_arg.category, m_arg.priority))

Call_NH_map_severity ==
    /\ m_arg.kind = "req" /\ KeysPresent(m_arg)
    /\ Call("NH_map_severity", NH_map_severity(m_arg.category, m_arg.priority))

\* The work item built for one requirement by the heading-link, bundle and
\* individual scripts; the requirement's category and priority may be absent.
Call_HD_create_workitem_format ==
    /\ m_arg.kind = "req"
    /\ Call("HD_create_workitem_format",
            HD_create_workitem_format(MakeReq(m_arg.category, m_arg.priority),
                HeadingIdOf(1, 0), ChapterHeadings[1]).work_item)

Call_create_workitem_exact_format ==
    /\ m_arg.kind = "req"
    /\ Call("create_workitem_exact_format",
            create_workitem_exact_format(MakeReq(m_arg.category, m_arg.priority),
                "Python/FCTS-9156"))

Call_IN_create_workitem_format ==
    /\ m_arg.kind = "req"
    /\ Call("IN_create_workitem_format",
            IN_create_workitem_format(DefaultAnalysis.items,
                MakeReq(m_arg.category, m_arg.priority), "Python/FCTS-9156",
                ChapterHeadings[1], Missing).work_item)

Call_match_heading_to_workitem ==
    /\ m_arg.kind = "heading"
    /\ Call("match_heading_to_workitem",
            match_heading_to_workitem(m_arg.existing, m_arg.chapter, m_arg.subchapter))

Call_map_requirement_to_parent ==
    /\ m_arg.kind = "parent"
    /\ Call("map_requirement_to_parent",
            map_requirement_to_parent(m_arg.existing,
                [category |-> m_arg.category, title |-> m_arg.title]))

\* BrakeRequirementsConverter(input, output, heading_map): nothing exits.
Call_NH_init ==
    /\ m_arg.kind = "title" /\ m_fn = "none"
    /\ LET r == NH_init(m_arg.file)
       IN  /\ heading_ids' = r.heading_ids
           /\ reported' = r.reported
    /\ m_fn' = "__init__"
    /\ m_ret' = "none"
    /\ UNCHANGED <<inputs, pc, exit_status, work_items, heading_counter,
                   existing_workitems, locals, output, m_arg>>

\* The conversion's look-up in the table that __init__ left.
Call_get_heading_id ==
    /\ m_arg.kind = "title" /\ m_fn = "__init__"
    /\ m_fn' = "get_heading_id"
    /\ m_ret' = get_heading_id(heading_ids, m_arg.title)
    /\ UNCHANGED <<inputs, pc, reported, exit_status, fields, locals, output,
                   m_arg>>

Call_create_links ==
    /\ m_arg.kind = "link"
    /\ Call("create_links",
            create_links(m_arg.existing, MakeReq(m_arg.category, Missing),
                         m_arg.parent_id))

NextMap ==
    \/ Call_map_priority \/ Call_NH_map_priority
    \/ Call_validate_input \/ Call_NH_validate_input
    \/ Call_severity_pair
    \/ Call_map_status \/ Call_NH_map_status
    \/ Call_map_severity \/ Call_NH_map_severity
    \/ Call_HD_create_workitem_format \/ Call_create_workitem_exact_format
    \/ Call_IN_create_workitem_format
    \/ Call_match_heading_to_workitem
    \/ Call_map_requirement_to_parent
    \/ Call_NH_init \/ Call_get_heading_id
    \/ Call_create_links

SpecMap == InitMap /\ [][NextMap]_vars

(* ------------------------------------------------- the input, by position *)
\* A position <<c, s, i>> names the i-th work item of subchapter s of chapter
\* c; s = 0 names the chapter itself and i = 0 the heading of the chapter or
\* subchapter; <<0, 0, 0>> is the document.  Document order is the
\* lexicographic order of the positions.
SubsOf(chs, c) == chs[c].subchapters.subs

WorkitemsAt(chs, c, sb) ==
    IF sb = 0 THEN chs[c].workitems ELSE SubsOf(chs, c)[sb].workitems

\* The positions of the input's work items: the elements of every
\* "workitems" list (an absent, null or empty "workitems" has none).
ReqPositions(chs) ==
    UNION { UNION { {<<c, sb, i>> : i \in 1..Len(WorkitemsAt(chs, c, sb).items)} :
                    sb \in 0..Len(SubsOf(chs, c)) } :
            c \in 1..Len(chs) }

\* The positions of the document, its chapters and its subchapters.
HeadingPositions(chs) ==
    {<<0, 0, 0>>} \cup
    UNION { {<<c, sb, 0>> : sb \in 0..Len(SubsOf(chs, c))} : c \in 1..Len(chs) }

LexLess(p, q) ==
    \/ p[1] < q[1]
    \/ p[1] = q[1] /\ p[2] < q[2]
    \/ p[1] = q[1] /\ p[2] = q[2] /\ p[3] < q[3]

\* The number of positions of P that come before p in document order: the
\* item of position p is the (Rank(P, p) + 1)-th of a list in document order.
Rank(P, p) == Cardinality({q \in P : LexLess(q, p)})

ReqAt(chs, p) == WorkitemsAt(chs, p[1], p[2]).items[p[3]]

\* The heading (chapter or subchapter) that encloses a work item.
EnclosingHeading(chs, p) ==
    IF p[2] = 0 THEN chs[p[1]] ELSE SubsOf(chs, p[1])[p[2]]

(* ----------------------------------------------------------------- claims *)
\* C1: in the heading script every output item has exactly one link, its role
\* is has_parent and its target is the heading_id of the subchapter that
\* encloses the work item, or of the chapter for a direct work item (the
\* empty string when that heading has no heading_id).  Stated of
\* output_items at every step, which is a prefix of the final list.
C1_ParentLinks ==
    variant = "headings" =>
        LET P == ReqPositions(Chapters)
        IN  /\ Len(work_items) <= Cardinality(P)
            /\ \A p \in P :
                LET n == Rank(P, p) + 1
                    h == EnclosingHeading(Chapters, p)
                IN  n <= Len(work_items) =>
                        /\ Len(work_items[n].links) = 1
                        /\ work_items[n].links[1].role = "has_parent"
                        /\ work_items[n].links[1].target_id =
                               (IF h.heading_id = Missing THEN "" ELSE h.heading_id)

\* C1 witness: a written output with an item linked to a subchapter's
\* heading_id and a later chapter's direct item linked to that chapter's.
C1_Witness ==
    /\ variant = "headings" /\ output.written
    /\ LET P == ReqPositions(Chapters)
       IN  \E p, q \in P :
            LET m == Rank(P, p) + 1
                n == Rank(P, q) + 1
            IN  /\ m < n
                /\ p[2] > 0 /\ q[2] = 0
                /\ output.work_items[m].links[1].target_id =
                       SubsOf(Chapters, p[1])[p[2]].heading_id
                /\ output.work_items[n].links[1].target_id = Chapters[q[1]].heading_id
                /\ output.work_items[m].links[1].target_id #
                       output.work_items[n].links[1].target_id

\* C2: the heading script writes one output item per input work item, in
\* document order (chapters in order; in a chapter its direct items, then
\* each subchapter's), and metadata.total_items is the length of the list.
\* An absent or empty "workitems" contributes nothing.
C2_DocumentOrder ==
    (variant = "headings" /\ output.written) =>
        LET P == ReqPositions(Chapters)
        IN  /\ Len(output.work_items) = Cardinality(P)
            /\ \A p \in P :
                LET req == ReqAt(Chapters, p)
                    wi == output.work_items[Rank(P, p) + 1].work_item
                IN  /\ wi.title = req.title \o " " \o Timestamp
                    /\ wi.description = "<p>" \o req.description \o "</p>"
            /\ output.metadata.total_items = Len(output.work_items)

\* C2 witness: two chapters, one with direct items and items in two
\* subchapters, and a heading whose "workitems" is absent or empty.
C2_Witness ==
    /\ variant = "headings" /\ output.written
    /\ Len(Chapters) >= 2
    /\ \E c \in 1..Len(Chapters) :
        /\ Len(Chapters[c].workitems.items) > 0
        /\ \E s1, s2 \in 1..Len(SubsOf(Chapters, c)) :
            /\ s1 # s2
            /\ Len(SubsOf(Chapters, c)[s1].workitems.items) > 0
            /\ Len(SubsOf(Chapters, c)[s2].workitems.items) > 0
    /\ \E p \in HeadingPositions(Chapters) :
        /\ p[1] > 0
        /\ WorkitemsAt(Chapters, p[1], p[2]).kind \in {"missing", "list"}
        /\ Len(WorkitemsAt(Chapters, p[1], p[2]).items) = 0
    /\ Len(output.work_items) >= 4

\* The heading that a synthetic-headings item at position p must link to.
ParentPosition(p) ==
    IF p[3] > 0 THEN <<p[1], p[2], 0>>
    ELSE IF p[2] > 0 THEN <<p[1], 0, 0>>
    ELSE <<0, 0, 0>>

\* The positions of the synthetic-headings output: headings and work items.
OutlinePositions(chs) == HeadingPositions(chs) \cup ReqPositions(chs)

HasParentTargets(w) ==
    {w.links[k].target_id : k \in {k \in 1..Len(w.links) : w.links[k].role = "has_parent"}}

\* C3: in the synthetic-headings script every has_parent link targets the id
\* of a heading that stands earlier in work_items; in the written output the
\* root heading is first and has no links, a chapter heading links to the
\* root, a subchapter heading to its chapter's heading, a direct work item to
\* its chapter's heading and a subchapter's work item to the subchapter's.
C3_LinksToEarlierHeading ==
    variant = "synthetic" =>
        /\ \A n \in 1..Len(work_items) : \A t \in HasParentTargets(work_items[n]) :
            \E m \in 1..(n - 1) :
                work_items[m].type = "heading" /\ work_items[m].id = t
        /\ output.written =>
            LET P == OutlinePositions(Chapters)
            IN  /\ Len(output.work_items) = Cardinality(P)
                /\ output.work_items[1].type = "heading"
                /\ output.work_items[1].id = root_heading_id
                /\ output.work_items[1].links = <<>>
                /\ \A p \in P \ {<<0, 0, 0>>} :
                    LET w == output.work_items[Rank(P, p) + 1]
                    IN  /\ w.type = (IF p[3] = 0 THEN "heading" ELSE "requirement")
                        /\ Len(w.links) = 1
                        /\ w.links[1].role = "has_parent"
                        /\ w.links[1].target_id =
                               output.work_items[Rank(P, ParentPosition(p)) + 1].id

\* C3 witness: a written output with two chapters, a direct work item and a
\* work item in a subchapter.
C3_Witness ==
    /\ variant = "synthetic" /\ output.written
    /\ Len(Chapters) >= 2
    /\ \E p, q \in ReqPositions(Chapters) : p[2] = 0 /\ q[2] > 0 /\ p[1] = q[1]

HeadingIndices(ws) == {i \in 1..Len(ws) : ws[i].type = "heading"}

\* C4: the n-th call of generate_heading_id returns Python/BR-HEAD-(1000+n),
\* heading_counter grows by exactly one per call (every step makes at most
\* one call), and the heading items of a conversion carry distinct ids.
C4_HeadingIdsState ==
    variant = "synthetic" =>
        LET ws == work_items \o items
            H == HeadingIndices(ws)
            calls == heading_counter - 1000
        IN  /\ \A i \in H :
                ws[i].id = "Python/BR-HEAD-" \o
                           ToString(1000 + Cardinality({j \in H : j <= i}))
            /\ \A i, j \in H : i # j => ws[i].id # ws[j].id
            /\ IF pc = "exit" THEN calls \in {Cardinality(H), Cardinality(H) + 1}
               ELSE calls = Cardinality(H)

C4_HeadingIdsStep ==
    variant = "synthetic" =>
        \/ heading_counter' = heading_counter
        \/ heading_counter' = heading_counter + 1

C4_HeadingIds == []C4_HeadingIdsState /\ [][C4_HeadingIdsStep]_vars

\* C4 witness: root, chapter and subchapter headings have been generated.
C4_Witness ==
    /\ variant = "synthetic" /\ output.written
    /\ heading_counter >= 1004
    /\ \E c \in 1..Len(Chapters) : Len(SubsOf(Chapters, c)) > 0

NumSubchapters ==
    Cardinality(UNION { {<<c, sb>> : sb \in 1..Len(SubsOf(Chapters, c))} :
                        c \in 1..Len(Chapters) })

\* C5: in the synthetic-headings output metadata, total_items =
\* total_requirements + total_headings, total_headings = 1 + chapters +
\* subchapters and total_requirements = number of input work items.
C5_Metadata ==
    (variant = "synthetic" /\ output.written) =>
        /\ output.metadata.total_items =
               output.metadata.total_requirements + output.metadata.total_headings
        /\ output.metadata.total_headings = 1 + Len(Chapters) + NumSubchapters
        /\ output.metadata.total_requirements = Cardinality(ReqPositions(Chapters))

\* C5 witness: a written output with chapters, subchapters and work items.
C5_Witness ==
    /\ variant = "synthetic" /\ output.written
    /\ Len(Chapters) >= 2 /\ NumSubchapters >= 2
    /\ output.metadata.total_requirements >= 3

\* C6: the no-headings script creates no heading items: every output item
\* has type requirement, there is one per input work item in document
\* order, and metadata.total_items = metadata.total_requirements.
C6_OnlyRequirements ==
    (variant = "no_headings" /\ output.written) =>
        /\ \A n \in 1..Len(output.work_items) : output.work_items[n].type = "requirement"
        /\ LET P == ReqPositions(Chapters)
           IN  /\ Len(output.work_items) = Cardinality(P)
               /\ \A p \in P :
                    LET req == ReqAt(Chapters, p)
                        w == output.work_items[Rank(P, p) + 1]
                    IN  w.id = "Python/" \o req.id /\ w.title = req.title
        /\ output.metadata.total_items = output.metadata.total_requirements

\* C6 witness: a written output with direct and subchapter work items of two
\* chapters.
C6_Witness ==
    /\ variant = "no_headings" /\ output.written
    /\ Len(Chapters) >= 2
    /\ \E p, q \in ReqPositions(Chapters) : p[2] = 0 /\ q[2] > 0 /\ p[1] = q[1]
    /\ Len(output.work_items) >= 4

\* C7: the bundle script makes the first requirement in document order the
\* work_item and the remaining ones the children, in document order (number
\* of children = number of requirements - 1); with no requirement the result
\* is work_item = None with empty links and empty children.
C7_Bundle ==
    (variant = "exact" /\ output.written) =>
        LET P == ReqPositions(Chapters)
        IN  IF P = {}
            THEN output.work_item = None /\ output.links = <<>> /\ output.children = <<>>
            ELSE /\ output.work_item # None
                 /\ Len(output.children) = Cardinality(P) - 1
                 /\ \A p \in P :
                        LET n == Rank(P, p)
                            w == IF n = 0 THEN output.work_item ELSE output.children[n]
                        IN  w.title = ReqAt(Chapters, p).title \o " " \o Timestamp

\* C7 witness: a bundle whose children come from a chapter's direct work
\* items and from a subchapter.
C7_Witness ==
    /\ variant = "exact" /\ output.written
    /\ Len(output.children) >= 3
    /\ \E p, q \in ReqPositions(Chapters) : p[2] = 0 /\ q[2] > 0

\* The keys validate_input asks for: "document" in the input, the others in it.
KeyOrder == <<"document", "id", "title", "project", "space", "chapters">>

HasKey(d, k) == IF k = "document" THEN d.has_document ELSE d.has_document /\ k \in d.keys

AllKeysPresent(d) == \A n \in 1..Len(KeyOrder) : HasKey(d, KeyOrder[n])

Accepted(d) == AllKeysPresent(d) /\ d.chapters_kind = "list"

MissingKeyReport(k) ==
    IF k = "document" THEN "Missing 'document' key in input JSON"
    ELSE "Missing required key '" \o k \o "' in document"

\* The message names the first key, in the order asked, that is missing.
ReportsFirstMissingKey(d, message) ==
    \E n \in 1..Len(KeyOrder) :
        /\ ~HasKey(d, KeyOrder[n])
        /\ \A m \in 1..(n - 1) : HasKey(d, KeyOrder[m])
        /\ message = MissingKeyReport(KeyOrder[n])

ValidateCalled == m_fn \in {"validate_input", "NH_validate_input"}

BadInput == input_file \in {"missing", "invalid"} \/ ~Accepted(data)

\* C9: in the synthetic-headings and no-headings scripts, when the input file
\* is missing, is not JSON or fails validate_input, convert ends with exit
\* status 1 and writes no output; work_items stays empty and no heading id
\* is generated.
C9_BadInputExits ==
    (variant \in {"synthetic", "no_headings"} /\ BadInput) =>
        /\ ~output.written
        /\ work_items = <<>>
        /\ variant = "synthetic" => heading_counter = 1000
        /\ exit_status \in {-1, 1}
        /\ exit_status = 1 <=> pc = "exit"
        /\ pc # "exit" => ENABLED Next

\* C9 witness: convert has exited on an input that validate_input rejects.
C9_Witness ==
    /\ variant = "synthetic" /\ input_file = "valid" /\ ~Accepted(data)
    /\ data.has_document
    /\ pc = "exit" /\ exit_status = 1

\* C10: map_priority maps Critical to 100.0, High to 90.0, Medium to 50.0,
\* Low to 30.0 and every other priority to 50.0; the result is always one of
\* these four values.
C10_MapPriority ==
    m_fn \in {"map_priority", "NH_map_priority"} =>
        /\ m_arg.priority = "Critical" => m_ret = "100.0"
        /\ m_arg.priority = "High" => m_ret = "90.0"
        /\ m_arg.priority = "Medium" => m_ret = "50.0"
        /\ m_arg.priority = "Low" => m_ret = "30.0"
        /\ m_arg.priority \notin {"Critical", "High", "Medium", "Low"} => m_ret = "50.0"
        /\ m_ret \in {"100.0", "90.0", "50.0", "30.0"}

\* C10 witness: a priority outside the table has been mapped.
C10_Witness ==
    /\ m_fn = "map_priority"
    /\ m_arg.priority \notin {"Critical", "High", "Medium", "Low"}
    /\ m_ret = "50.0"

(* ------------------------------------------------------ claims C11 - C19 *)
PairCall == m_arg.kind = "pair" /\ m_fn \in SeverityFns

CategoryFns ==
    {"HD_create_workitem_format", "create_workitem_exact_format",
     "IN_create_workitem_format"}

\* C11 as stated: in every variant two requirements with the same category
\* receive the same severity, whatever their priority.
C11_AsStated ==
    (PairCall /\ m_arg.first.category = m_arg.second.category) =>
        m_ret.first = m_ret.second

\* C11 amended: in the heading-link, bundle and individual scripts two
\* requirements with the same category receive the same severity unless the
\* category is Safety, where they do exactly when both or neither are
\* Critical; in the synthetic-headings and no-headings scripts two
\* requirements with the same priority receive the same severity unless the
\* priority is Critical and exactly one of them is Safety.
C11_Severity ==
    PairCall =>
        LET a == m_arg.first
            b == m_arg.second
        IN  /\ (m_fn \in CategoryFns /\ a.category = b.category) =>
                (m_ret.first = m_ret.second <=>
                    (a.category = "Safety" =>
                        ((a.priority = "Critical") <=> (b.priority = "Critical"))))
            /\ (m_fn \notin CategoryFns /\ a.priority = b.priority) =>
                (m_ret.first = m_ret.second <=>
                    (a.priority = "Critical" =>
                        ((a.category = "Safety") <=> (b.category = "Safety"))))

\* C11 witness: the heading-link script has given two Safety requirements,
\* one Critical and one High, different severities.
C11_Witness ==
    /\ PairCall /\ m_fn = "HD_create_workitem_format"
    /\ m_arg.first.category = "Safety" /\ m_arg.second.category = "Safety"
    /\ m_arg.first.priority = "Critical" /\ m_arg.second.priority = "High"
    /\ m_ret.first = "safety_critical" /\ m_ret.second = "must_have"

ReqCall(fns) == m_arg.kind = "req" /\ m_fn \in fns

\* C12: map_status maps Regulatory to approved, Safety to in_review and every
\* other category, listed or not, to draft; the work items that the
\* heading-link, bundle and individual scripts build have status draft
\* whatever the category.
C12_Status ==
    /\ ReqCall({"map_status", "NH_map_status"}) =>
        m_ret = (CASE m_arg.category = "Regulatory" -> "approved"
                   [] m_arg.category = "Safety" -> "in_review"
                   [] OTHER -> "draft")
    /\ ReqCall(CategoryFns) => m_ret.status = "draft"

\* C12 witness: map_status has mapped a category outside its table.
C12_Witness ==
    /\ ReqCall({"map_status"})
    /\ m_arg.category = "Other"
    /\ m_ret = "draft"

ExistingIds(existing) == {existing[i].id : i \in 1..Len(existing)}

\* The k-th keyword of the table occurs in the cleaned heading and one of its
\* preferred ids is in existing.
KeywordYields(existing, clean, k) ==
    /\ Contains(clean, IN_heading_map[k][1])
    /\ \E i \in 1..Len(IN_heading_map[k][2]) :
            IN_heading_map[k][2][i] \in ExistingIds(existing)

\* The heading yields an id: some keyword does.
HeadingYields(existing, clean) ==
    clean # "" /\ \E k \in 1..Len(IN_heading_map) : KeywordYields(existing, clean, k)

\* id is what the heading yields: the first existing preferred id of the
\* first keyword, in table order, that yields one.
YieldedBy(existing, clean, id) ==
    \E k \in 1..Len(IN_heading_map) :
        /\ KeywordYields(existing, clean, k)
        /\ \A j \in 1..(k - 1) : ~KeywordYields(existing, clean, j)
        /\ \E i \in 1..Len(IN_heading_map[k][2]) :
            /\ IN_heading_map[k][2][i] = id
            /\ id \in ExistingIds(existing)
            /\ \A j \in 1..(i - 1) :
                    IN_heading_map[k][2][j] \notin ExistingIds(existing)

Cleaned(heading) == IF heading = Missing THEN "" ELSE Lower(StripNumbering(heading))

\* C13: match_heading_to_workitem returns what the subchapter heading yields
\* when it yields an id, otherwise what the chapter heading yields, otherwise
\* Python/FCTS-9156; the result is in existing_workitems or is
\* Python/FCTS-9156.
C13_MatchHeading ==
    m_fn = "match_heading_to_workitem" =>
        LET e == m_arg.existing
            sub == Cleaned(m_arg.subchapter)
            ch == Cleaned(m_arg.chapter)
        IN  /\ IF HeadingYields(e, sub) THEN YieldedBy(e, sub, m_ret)
               ELSE IF HeadingYields(e, ch) THEN YieldedBy(e, ch, m_ret)
               ELSE m_ret = "Python/FCTS-9156"
            /\ m_ret \in ExistingIds(e) \cup {"Python/FCTS-9156"}

\* C13 witness: subchapter and chapter yield different ids and the
\* subchapter's is returned.
C13_Witness ==
    /\ m_fn = "match_heading_to_workitem"
    /\ HeadingYields(m_arg.existing, Cleaned(m_arg.subchapter))
    /\ HeadingYields(m_arg.existing, Cleaned(m_arg.chapter))
    /\ ~YieldedBy(m_arg.existing, Cleaned(m_arg.chapter), m_ret)
    /\ YieldedBy(m_arg.existing, Cleaned(m_arg.subchapter), m_ret)

LowerOf(value) == IF value = Missing THEN "" ELSE Lower(value)

\* Rule r is the rule of the category and one of its keywords occurs in the
\* title, both lower-cased.
RuleApplies(r, category, title) ==
    /\ mapping_rules[r].category = LowerOf(category)
    /\ \E k \in 1..Len(mapping_rules[r].keywords) :
            Contains(LowerOf(title), mapping_rules[r].keywords[k])

\* id is the first id of the sequence ids that is in S.
FirstIn(ids, S, id) ==
    \E i \in 1..Len(ids) :
        /\ ids[i] = id /\ id \in S
        /\ \A j \in 1..(i - 1) : ids[j] \notin S

\* C14: map_requirement_to_parent returns (1) the first existing preferred
\* id of the category's rule when a keyword of the rule occurs in the title
\* and such an id exists, (2) otherwise Python/FCTS-9156 when it exists,
\* (3) otherwise the first existing work item of type requirement,
\* (4) otherwise Python/FCTS-9156; the result is in existing_workitems or is
\* Python/FCTS-9156.
C14_MapParent ==
    m_fn = "map_requirement_to_parent" =>
        LET e == m_arg.existing
            ids == ExistingIds(e)
            R == {r \in 1..Len(mapping_rules) :
                    /\ RuleApplies(r, m_arg.category, m_arg.title)
                    /\ \E i \in 1..Len(mapping_rules[r].preferred) :
                            mapping_rules[r].preferred[i] \in ids}
            Q == {i \in 1..Len(e) : e[i].type = "requirement"}
        IN  /\ IF R # {}
               THEN \A r \in R : FirstIn(mapping_rules[r].preferred, ids, m_ret)
               ELSE IF "Python/FCTS-9156" \in ids THEN m_ret = "Python/FCTS-9156"
               ELSE IF Q # {}
               THEN \E i \in Q : m_ret = e[i].id /\ \A j \in Q : i <= j
               ELSE m_ret = "Python/FCTS-9156"
            /\ m_ret \in ids \cup {"Python/FCTS-9156"}

\* C14 witness: no rule yields an id, Python/FCTS-9156 does not exist, and
\* the first existing requirement, which is not the first work item, is
\* returned.
C14_Witness ==
    /\ m_fn = "map_requirement_to_parent"
    /\ "Python/FCTS-9156" \notin ExistingIds(m_arg.existing)
    /\ Len(m_arg.existing) >= 2
    /\ m_arg.existing[1].type # "requirement"
    /\ m_arg.existing[2].type = "requirement"
    /\ m_ret = m_arg.existing[2].id
    /\ \A r \in 1..Len(mapping_rules) : ~RuleApplies(r, m_arg.category, m_arg.title)

\* C15: in the synthetic-headings and no-headings scripts map_severity
\* returns safety_critical exactly when the category is Safety and the
\* priority Critical; otherwise Critical gives must_have, High should_have,
\* Medium could_have and any other priority nice_to_have.
C15_MapSeverity ==
    ReqCall({"map_severity", "NH_map_severity"}) =>
        /\ m_ret = "safety_critical" <=>
                (m_arg.category = "Safety" /\ m_arg.priority = "Critical")
        /\ ~(m_arg.category = "Safety" /\ m_arg.priority = "Critical") =>
                m_ret = (CASE m_arg.priority = "Critical" -> "must_have"
                           [] m_arg.priority = "High" -> "should_have"
                           [] m_arg.priority = "Medium" -> "could_have"
                           [] OTHER -> "nice_to_have")

\* C15 witness: map_severity has mapped a Critical Safety requirement.
C15_Witness ==
    /\ ReqCall({"map_severity"})
    /\ m_arg.category = "Safety" /\ m_arg.priority = "Critical"
    /\ m_ret = "safety_critical"

\* C16: in the heading-link script's create_workitem_format, severity is
\* safety_critical exactly for Safety with Critical, must_have for Safety
\* otherwise and for Functional, Performance, Regulatory, an absent and an
\* unlisted category, should_have for Interface, Environmental and Testing,
\* could_have for Maintenance; priority is high for Critical and High,
\* medium for Medium, low for Low, medium for an absent or unlisted priority.
C16_HeadingFormat ==
    ReqCall({"HD_create_workitem_format"}) =>
        LET c == m_arg.category
            p == m_arg.priority
        IN  /\ m_ret.severity = "safety_critical" <=> (c = "Safety" /\ p = "Critical")
            /\ m_ret.severity =
                (CASE c = "Safety" /\ p = "Critical" -> "safety_critical"
                   [] c = "Safety" /\ p # "Critical" -> "must_have"
                   [] c \in {"Interface", "Environmental", "Testing"} -> "should_have"
                   [] c = "Maintenance" -> "could_have"
                   [] OTHER -> "must_have")
            /\ m_ret.priority =
                (CASE p \in {"Critical", "High"} -> "high"
                   [] p = "Low" -> "low"
                   [] OTHER -> "medium")

\* C16 witness: a requirement without category and with an unlisted priority
\* has been formatted.
C16_Witness ==
    /\ ReqCall({"HD_create_workitem_format"})
    /\ m_arg.category = Missing /\ m_arg.priority = "Urgent"
    /\ m_ret.severity = "must_have" /\ m_ret.priority = "medium"

(* ---------------------------------------------------------------- C17 *)
TitleCall == m_fn = "get_heading_id"
UnknownId == "Python/FCTS-UNKNOWN"
ExactKey(T, t) == \E i \in 1..Len(T) : T[i][1] = t
ContainingKeys(T, t) == {i \in 1..Len(T) : Contains(T[i][1], StripNumbering(t))}

\* A title matches a heading when it is a key, or when what is left of it
\* after the numbering is a non-empty part of a key.
MatchesHeading(T, t) ==
    \/ ExactKey(T, t)
    \/ StripNumbering(t) # "" /\ ContainingKeys(T, t) # {}

\* C17 as stated: get_heading_id links a title to a real heading id only when
\* the title matches a heading of the table; every other title gets
\* Python/FCTS-UNKNOWN.
C17_AsStated ==
    TitleCall =>
        (m_ret # UnknownId => MatchesHeading(heading_ids, m_arg.title))

\* C17 (amended): get_heading_id returns the id of the key equal to the title;
\* otherwise the id of the first key, in table order, that contains the title
\* without its leading number prefix; otherwise Python/FCTS-UNKNOWN, which is
\* returned exactly when the title is no key and no key contains the stripped
\* title.  The empty string is contained in every key, so a title that is
\* empty after stripping and is no key gets the id of the first table entry.
C17_GetHeadingId ==
    TitleCall =>
        LET T == heading_ids
            t == m_arg.title
            K == ContainingKeys(T, t)
        IN  /\ ExactKey(T, t) =>
                   \E i \in 1..Len(T) : T[i][1] = t /\ m_ret = T[i][2]
            /\ (~ExactKey(T, t) /\ K # {}) =>
                   \E i \in K : /\ m_ret = T[i][2]
                                /\ \A j \in K : i <= j
            /\ (~ExactKey(T, t) /\ K = {}) => m_ret = UnknownId
            /\ m_ret = UnknownId <=> (~ExactKey(T, t) /\ K = {})
            /\ (~ExactKey(T, t) /\ StripNumbering(t) = "") => m_ret = T[1][2]

\* C17 witness: a title made of a number prefix only has been looked up and
\* was linked to the first entry of the table.
C17_Witness ==
    /\ TitleCall
    /\ m_arg.title # "" /\ StripNumbering(m_arg.title) = ""
    /\ m_ret = DefaultHeadingIds[1][2]
    /\ m_ret # UnknownId

(* ---------------------------------------------------------------- C18 *)
Constructed == m_arg.kind = "title" /\ m_fn \in {"__init__", "get_heading_id"}

\* The elements of the file that update stored: those before the first one
\* that is no key/value pair.
Stored(file) ==
    {k \in 1..Len(file.elems) : \A j \in 1..k : file.elems[j].ok}

LoadFails(file) ==
    /\ file.state = "exists"
    /\ \/ file.kind \in {"invalid", "scalar"}
       \/ \E k \in 1..Len(file.elems) : ~file.elems[k].ok

\* The id that the stored elements give to a key, or the given default.
MergedId(file, key, default) ==
    LET S == {k \in Stored(file) : file.elems[k].key = key}
    IN  IF S = {} THEN default
        ELSE file.elems[CHOOSE k \in S : \A j \in S : j <= k].value

\* C18 as stated: when loading the heading map fails, the failure is reported
\* and heading_ids is exactly the default table.
C18_AsStated ==
    (Constructed /\ LoadFails(m_arg.file)) =>
        /\ reported = LoadFailed
        /\ heading_ids = DefaultHeadingIds

\* C18 (amended): a heading-map file that is given and exists is merged over
\* the default table: a custom entry replaces the default id of its title,
\* the other default entries are kept, new titles are added.  When loading
\* fails the failure is reported and nothing exits; heading_ids is the default
\* table merged with the pairs that precede the failing element of a JSON
\* array, and is the default table when the file cannot be parsed or holds
\* no such pair.  Without an existing file the table is the default one.
C18_LoadHeadingMap ==
    Constructed =>
        LET f == m_arg.file
            D == DefaultHeadingIds
            T == heading_ids
        IN  /\ Len(T) >= Len(D)
            /\ \A i \in 1..Len(D) :
                   /\ T[i][1] = D[i][1]
                   /\ T[i][2] = MergedId(f, D[i][1], D[i][2])
            /\ \A i \in 1..Len(T) : \A j \in 1..Len(T) :
                   T[i][1] = T[j][1] => i = j
            /\ \A i \in (Len(D) + 1)..Len(T) :
                   \E k \in Stored(f) :
                       /\ T[i][1] = f.elems[k].key
                       /\ T[i][2] = MergedId(f, T[i][1], Missing)
            /\ f.state = "exists" =>
                   \A k \in Stored(f) :
                       \E i \in 1..Len(T) : T[i][1] = f.elems[k].key
            /\ f.state # "exists" => (T = D /\ reported = "")
            /\ LoadFails(f) =>
                   /\ reported = LoadFailed
                   /\ exit_status = -1 /\ pc = "start"
                   /\ (\A k \in 1..Len(f.elems) : ~f.elems[k].ok) => T = D
            /\ (f.state = "exists" /\ ~LoadFails(f)) => reported = LoadedInfo

\* C18 witness: loading failed on the second element of a JSON array, the
\* pair before it is in the table, and the conversion has looked up a title.
C18_Witness ==
    /\ m_fn = "get_heading_id" /\ m_arg.kind = "title"
    /\ LoadFails(m_arg.file) /\ Stored(m_arg.file) # {}
    /\ reported = LoadFailed
    /\ heading_ids # DefaultHeadingIds
    /\ exit_status = -1

(* ---------------------------------------------------------------- C19 *)
LinkCall == m_fn = "create_links"

\* C19: create_links of the bundle script returns the has_parent link to
\* parent_id first, then exactly one relates_to link to Python/FCTS-9155 for
\* the category Safety, exactly one verifies link to Python/FCTS-9160 for the
\* category Testing, and nothing else for any other category, whether or not
\* the extra target is a known work item or is the parent itself.
C19_CreateLinks ==
    LinkCall =>
        LET L == m_ret
            c == m_arg.category
        IN  /\ Len(L) >= 1
            /\ L[1].role = "has_parent" /\ L[1].target_id = m_arg.parent_id
            /\ c = "Safety" =>
                   /\ Len(L) = 2
                   /\ L[2].role = "relates_to"
                   /\ L[2].target_id = "Python/FCTS-9155"
            /\ c = "Testing" =>
                   /\ Len(L) = 2
                   /\ L[2].role = "verifies"
                   /\ L[2].target_id = "Python/FCTS-9160"
            /\ c \notin {"Safety", "Testing"} => Len(L) = 1

\* C19 witness: a Safety requirement whose parent is Python/FCTS-9155, which
\* is no known work item, has got both links to it.
C19_Witness ==
    /\ LinkCall
    /\ m_arg.category = "Safety"
    /\ m_arg.parent_id = "Python/FCTS-9155"
    /\ "Python/FCTS-9155" \notin ExistingIds(m_arg.existing)
    /\ Len(m_ret) = 2
    /\ m_ret[2].target_id = m_arg.parent_id
====
